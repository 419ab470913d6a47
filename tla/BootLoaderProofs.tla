-------------------------- MODULE BootLoaderProofs --------------------------
(***************************************************************************)
(* Theorems about BootLoader: crc32 notices a changed byte of the program,  *)
(* and boot and the loader stay in step, byte for byte.                     *)
(***************************************************************************)
EXTENDS BootLoader, NatLemmas, SequenceTheorems

----------------------------------------------------------------------------
(***************************************************************************)
(* Words as sets of bits.                                                   *)
(***************************************************************************)
LEMMA XorIn ==
  ASSUME NEW v, NEW w, NEW i
  PROVE  i \in Xor(v, w) <=> ~ (i \in v <=> i \in w)
BY DEF Xor

\* Xor stays within any set of bits.
LEMMA XorWord ==
  ASSUME NEW D, NEW v \in SUBSET D, NEW w \in SUBSET D
  PROVE  Xor(v, w) \in SUBSET D
BY DEF Xor

\* A word cancels itself, and the order of two does not matter.
LEMMA XorSelf ==
  ASSUME NEW v, NEW w
  PROVE  /\ Xor(v, v) = {}
         /\ Xor(v, {}) = v /\ Xor({}, v) = v
         /\ Xor(v, w) = Xor(w, v)
BY DEF Xor

\* Nor does the order of three.
LEMMA XorAssociative ==
  ASSUME NEW u, NEW v, NEW w
  PROVE  Xor(Xor(u, v), w) = Xor(u, Xor(v, w))
BY DEF Xor

\* What was added to both is no difference.
LEMMA XorCancels ==
  ASSUME NEW u, NEW v, NEW w, Xor(u, w) = Xor(v, w)
  PROVE  u = v
<1>1. Xor(Xor(u, w), w) = u /\ Xor(Xor(v, w), w) = v
  BY DEF Xor
<1> QED BY <1>1

\* A bit after a shift is the bit n places further up.
LEMMA ShrIn ==
  ASSUME NEW w \in SUBSET Nat, NEW n \in Nat, NEW i \in Nat
  PROVE  i \in Shr(w, n) <=> i + n \in w
BY DEF Shr

\* A shift to the right stays within a word.
LEMMA ShrWord ==
  ASSUME NEW w \in SUBSET Ones, NEW n \in Nat
  PROVE  Shr(w, n) \in SUBSET Ones
BY DEF Shr, Ones

\* Shifting and ^ may change places.
LEMMA ShrXor ==
  ASSUME NEW v \in SUBSET Nat, NEW w \in SUBSET Nat, NEW n \in Nat
  PROVE  Shr(Xor(v, w), n) = Xor(Shr(v, n), Shr(w, n))
BY DEF Shr, Xor

\* Two shifts are one.
LEMMA ShrShr ==
  ASSUME NEW w \in SUBSET Nat, NEW m \in Nat, NEW n \in Nat
  PROVE  Shr(Shr(w, m), n) = Shr(w, m + n)
<1>1. Shr(w, m) \in SUBSET Nat
  BY DEF Shr
<1>2. \A i \in Nat : i \in Shr(Shr(w, m), n) <=> i \in Shr(w, m + n)
  BY <1>1, ShrIn
<1>3. Shr(Shr(w, m), n) \in SUBSET Nat /\ Shr(w, m + n) \in SUBSET Nat
  BY <1>1 DEF Shr
<1> QED BY <1>2, <1>3

----------------------------------------------------------------------------
(***************************************************************************)
(* One division is linear, loses nothing and moves the upper bits down.     *)
(***************************************************************************)
LEMMA DividedWord ==
  ASSUME NEW w \in SUBSET Ones
  PROVE  Times_x(w) \in SUBSET Ones /\ Divided[w] = Times_x(w)
<1>1. Polynomial \in SUBSET Ones
  BY DEF Polynomial, Ones
<1>2. Shr(w, 1) \in SUBSET Ones
  BY ShrWord
<1>3. (IF 0 \in w THEN Polynomial ELSE {}) \in SUBSET Ones
  BY <1>1
<1> QED BY <1>2, <1>3, XorWord DEF Times_x, Divided

\* Division is linear over ^.
LEMMA DividedXor ==
  ASSUME NEW v \in SUBSET Ones, NEW w \in SUBSET Ones
  PROVE  Times_x(Xor(v, w)) = Xor(Times_x(v), Times_x(w))
<1> DEFINE P(z) == IF 0 \in z THEN Polynomial ELSE {}
<1>1. Shr(Xor(v, w), 1) = Xor(Shr(v, 1), Shr(w, 1))
  BY ShrXor DEF Ones
<1>2. P(Xor(v, w)) = Xor(P(v), P(w))
  BY XorIn, XorSelf
<1> HIDE DEF P
<1>3. \A a, b, c, d : Xor(Xor(a, b), Xor(c, d)) = Xor(Xor(a, c), Xor(b, d))
  BY DEF Xor
<1>4. \A z : Times_x(z) = Xor(Shr(z, 1), P(z))
  BY DEF Times_x, P
<1>5. Times_x(Xor(v, w)) = Xor(Xor(Shr(v, 1), Shr(w, 1)), Xor(P(v), P(w)))
  BY <1>1, <1>2, <1>4
<1>6. Xor(Times_x(v), Times_x(w)) = Xor(Xor(Shr(v, 1), P(v)), Xor(Shr(w, 1), P(w)))
  BY <1>4
<1> QED BY <1>3, <1>5, <1>6

\* Two words that leave the same were the same: the polynomial has bit 31.
LEMMA DividedLosesNothing ==
  ASSUME NEW v \in SUBSET Ones, NEW w \in SUBSET Ones, Times_x(v) = Times_x(w)
  PROVE  v = w
<1>1. ASSUME NEW z \in SUBSET Ones
      PROVE  31 \in Times_x(z) <=> 0 \in z
  <2>1. 31 \notin Shr(z, 1) /\ 31 \in Polynomial
    BY DEF Shr, Ones, Polynomial
  <2> QED BY <2>1, XorIn DEF Times_x
<1>2. 0 \in v <=> 0 \in w
  BY <1>1
<1>3. Shr(v, 1) = Shr(w, 1)
  BY <1>2, XorCancels DEF Times_x
<1>4. \A i \in Nat : i + 1 \in v <=> i + 1 \in w
  BY <1>3, ShrIn DEF Ones
<1>5. \A i \in Ones : i \in v <=> i \in w
  <2> TAKE i \in Ones
  <2>1. CASE i = 0
    BY <2>1, <1>2
  <2>2. CASE i # 0
    <3>1. i - 1 \in Nat /\ (i - 1) + 1 = i
      BY <2>2 DEF Ones
    <3> QED BY <3>1, <1>4
  <2> QED BY <2>1, <2>2
<1> QED BY <1>5

\* Without the lowest bit a division is a shift.
LEMMA DividedShifts ==
  ASSUME NEW w \in SUBSET Ones, 0 \notin w
  PROVE  Times_x(w) = Shr(w, 1)
BY XorSelf DEF Times_x

----------------------------------------------------------------------------
(***************************************************************************)
(* Eight divisions: a byte goes through the table, the rest is shifted.     *)
(***************************************************************************)
Eight(w) == Times_x(Times_x(Times_x(Times_x(Times_x(Times_x(Times_x(Times_x(w))))))))

\* Eight divisions stay within a word; crc32_tab is made of them.
LEMMA EightWord ==
  ASSUME NEW w \in SUBSET Ones
  PROVE  /\ Eight(w) \in SUBSET Ones
         /\ Divided[Divided[Divided[Divided[Divided[Divided[Divided[Divided[w]]]]]]]] = Eight(w)
<1> DEFINE t1 == Times_x(w)   t2 == Times_x(t1)  t3 == Times_x(t2)  t4 == Times_x(t3)
           t5 == Times_x(t4)  t6 == Times_x(t5)  t7 == Times_x(t6)  t8 == Times_x(t7)
<1>1. t1 \in SUBSET Ones /\ Divided[w] = t1
  BY DividedWord
<1>2. t2 \in SUBSET Ones /\ Divided[t1] = t2
  BY <1>1, DividedWord
<1>3. t3 \in SUBSET Ones /\ Divided[t2] = t3
  BY <1>2, DividedWord
<1>4. t4 \in SUBSET Ones /\ Divided[t3] = t4
  BY <1>3, DividedWord
<1>5. t5 \in SUBSET Ones /\ Divided[t4] = t5
  BY <1>4, DividedWord
<1>6. t6 \in SUBSET Ones /\ Divided[t5] = t6
  BY <1>5, DividedWord
<1>7. t7 \in SUBSET Ones /\ Divided[t6] = t7
  BY <1>6, DividedWord
<1>8. t8 \in SUBSET Ones /\ Divided[t7] = t8
  BY <1>7, DividedWord
<1>9. Eight(w) = t8
  BY DEF Eight
<1> HIDE DEF t1, t2, t3, t4, t5, t6, t7, t8
<1> QED BY <1>1, <1>2, <1>3, <1>4, <1>5, <1>6, <1>7, <1>8, <1>9

\* Eight divisions are linear over ^.
LEMMA EightXor ==
  ASSUME NEW v \in SUBSET Ones, NEW w \in SUBSET Ones
  PROVE  Eight(Xor(v, w)) = Xor(Eight(v), Eight(w))
<1> DEFINE T(z) == Times_x(z)
<1>1. \A a, b \in SUBSET Ones : /\ T(Xor(a, b)) = Xor(T(a), T(b))
                                 /\ T(a) \in SUBSET Ones
  BY DividedXor, DividedWord
<1>2. \A z : Eight(z) = T(T(T(T(T(T(T(T(z))))))))
  BY DEF Eight
<1> HIDE DEF T
<1>3. \A a, b \in SUBSET Ones : /\ T(T(Xor(a, b))) = Xor(T(T(a)), T(T(b)))
                                 /\ T(T(a)) \in SUBSET Ones
  BY <1>1
<1>4. \A a, b \in SUBSET Ones : /\ T(T(T(T(Xor(a, b))))) = Xor(T(T(T(T(a)))), T(T(T(T(b)))))
                                 /\ T(T(T(T(a)))) \in SUBSET Ones
  BY <1>3
<1>5. \A a, b \in SUBSET Ones : T(T(T(T(T(T(T(T(Xor(a, b)))))))))
                                 = Xor(T(T(T(T(T(T(T(T(a)))))))), T(T(T(T(T(T(T(T(b)))))))))
  BY <1>4
<1> QED BY <1>2, <1>5

\* Eight divisions lose nothing.
LEMMA EightLosesNothing ==
  ASSUME NEW v \in SUBSET Ones, NEW w \in SUBSET Ones, Eight(v) = Eight(w)
  PROVE  v = w
<1> DEFINE T(z) == Times_x(z)
<1>1. \A a, b \in SUBSET Ones : /\ T(a) = T(b) => a = b
                                 /\ T(a) \in SUBSET Ones
  BY DividedLosesNothing, DividedWord
<1>2. \A z : Eight(z) = T(T(T(T(T(T(T(T(z))))))))
  BY DEF Eight
<1> HIDE DEF T
<1>3. \A a, b \in SUBSET Ones : /\ T(T(a)) = T(T(b)) => a = b
                                 /\ T(T(a)) \in SUBSET Ones
  BY <1>1
<1>4. \A a, b \in SUBSET Ones : /\ T(T(T(T(a)))) = T(T(T(T(b)))) => a = b
                                 /\ T(T(T(T(a)))) \in SUBSET Ones
  BY <1>3
<1>5. \A a, b \in SUBSET Ones :
         T(T(T(T(T(T(T(T(a)))))))) = T(T(T(T(T(T(T(T(b)))))))) => a = b
  BY <1>4
<1> QED BY <1>2, <1>5

\* The bits above a byte come down unchanged.
LEMMA EightShifts ==
  ASSUME NEW w \in SUBSET Ones, w \cap (0 .. 7) = {}
  PROVE  Eight(w) = Shr(w, 8)
<1>1. ASSUME NEW n \in 0 .. 7
      PROVE  Times_x(Shr(w, n)) = Shr(w, n + 1)
  <2>1. Shr(w, n) \in SUBSET Ones
    BY ShrWord
  <2>2. w \in SUBSET Nat /\ n \notin w /\ n \in Nat /\ 0 + n = n
    BY DEF Ones
  <2>3. 0 \notin Shr(w, n)
    BY <2>2, ShrIn
  <2>4. Times_x(Shr(w, n)) = Shr(Shr(w, n), 1)
    BY <2>1, <2>3, DividedShifts
  <2> QED BY <2>2, <2>4, ShrShr
<1>2. Shr(w, 0) = w
  <2>1. \A i \in w : i \in Nat /\ i - 0 = i /\ i >= 0
    BY DEF Ones
  <2> QED BY <2>1 DEF Shr
<1>3. /\ Times_x(w) = Shr(w, 1)
      /\ Times_x(Shr(w, 1)) = Shr(w, 2)
      /\ Times_x(Shr(w, 2)) = Shr(w, 3)
      /\ Times_x(Shr(w, 3)) = Shr(w, 4)
      /\ Times_x(Shr(w, 4)) = Shr(w, 5)
      /\ Times_x(Shr(w, 5)) = Shr(w, 6)
      /\ Times_x(Shr(w, 6)) = Shr(w, 7)
      /\ Times_x(Shr(w, 7)) = Shr(w, 8)
  BY <1>1, <1>2
<1> QED BY <1>3, Zenon DEF Eight

\* The table and the shift of crc32_inc are eight divisions.
LEMMA TableDivides ==
  ASSUME NEW w \in SUBSET Ones
  PROVE  Xor(crc32_tab[w \cap (0 .. 7)], Shr(w, 8)) = Eight(w)
<1> DEFINE low == w \cap (0 .. 7)
           high == w \ (0 .. 7)
<1>1. /\ low \in SUBSET Ones /\ low \in SUBSET (0 .. 7)
      /\ high \in SUBSET Ones /\ high \cap (0 .. 7) = {}
  OBVIOUS
<1>2. Xor(low, high) = w
  BY DEF Xor
<1>3. Shr(high, 8) = Shr(w, 8)
  <2>1. {j \in high : j >= 8} = {j \in w : j >= 8}
    BY SMTT(30) DEF Ones
  <2> QED BY <2>1 DEF Shr
<1>4. crc32_tab[low] = Eight(low)
  BY <1>1, EightWord DEF crc32_tab
<1> HIDE DEF low, high
<1>5. Eight(high) = Shr(w, 8)
  BY <1>1, <1>3, EightShifts
<1>6. Eight(w) = Xor(Eight(low), Eight(high))
  BY <1>1, <1>2, EightXor
<1> QED BY <1>4, <1>5, <1>6 DEF low

----------------------------------------------------------------------------
(***************************************************************************)
(* Bytes and their bits.                                                    *)
(***************************************************************************)
LEMMA Powers ==
  /\ Power[1] = 1  /\ Power[2] = 2  /\ Power[3] = 4  /\ Power[4] = 8
  /\ Power[5] = 16 /\ Power[6] = 32 /\ Power[7] = 64 /\ Power[8] = 128
BY DEF Power

\* The bits of a byte are among the lowest eight.
LEMMA BitsIn ==
  ASSUME NEW b \in Byte
  PROVE  /\ Bits(b) \in SUBSET (0 .. 7)
         /\ 0 \in Bits(b) <=> b % 2 = 1
         /\ 1 \in Bits(b) <=> (b \div 2) % 2 = 1
         /\ 2 \in Bits(b) <=> (b \div 4) % 2 = 1
         /\ 3 \in Bits(b) <=> (b \div 8) % 2 = 1
         /\ 4 \in Bits(b) <=> (b \div 16) % 2 = 1
         /\ 5 \in Bits(b) <=> (b \div 32) % 2 = 1
         /\ 6 \in Bits(b) <=> (b \div 64) % 2 = 1
         /\ 7 \in Bits(b) <=> (b \div 128) % 2 = 1
<1>1. \A i \in 0 .. 7 : i \in Bits(b) <=> (b \div Power[i + 1]) % 2 = 1
  BY DEF Bits
<1>2. /\ Power[0 + 1] = 1  /\ Power[1 + 1] = 2  /\ Power[2 + 1] = 4  /\ Power[3 + 1] = 8
      /\ Power[4 + 1] = 16 /\ Power[5 + 1] = 32 /\ Power[6 + 1] = 64 /\ Power[7 + 1] = 128
  BY Powers
<1>3. b \div 1 = b
  BY DEF Byte
<1>4. Bits(b) \in SUBSET (0 .. 7)
  BY DEF Bits
<1>5. /\ 0 \in Bits(b) <=> (b \div Power[0 + 1]) % 2 = 1
      /\ 1 \in Bits(b) <=> (b \div Power[1 + 1]) % 2 = 1
      /\ 2 \in Bits(b) <=> (b \div Power[2 + 1]) % 2 = 1
      /\ 3 \in Bits(b) <=> (b \div Power[3 + 1]) % 2 = 1
      /\ 4 \in Bits(b) <=> (b \div Power[4 + 1]) % 2 = 1
      /\ 5 \in Bits(b) <=> (b \div Power[5 + 1]) % 2 = 1
      /\ 6 \in Bits(b) <=> (b \div Power[6 + 1]) % 2 = 1
      /\ 7 \in Bits(b) <=> (b \div Power[7 + 1]) % 2 = 1
  BY <1>1
<1> QED BY <1>2, <1>3, <1>4, <1>5

\* Eight binary digits are the bits of the number they make.
LEMMA DigitsOfByte ==
  ASSUME NEW a0 \in 0 .. 1, NEW a1 \in 0 .. 1, NEW a2 \in 0 .. 1, NEW a3 \in 0 .. 1,
         NEW a4 \in 0 .. 1, NEW a5 \in 0 .. 1, NEW a6 \in 0 .. 1, NEW a7 \in 0 .. 1,
         NEW b, b = a0 + 2 * a1 + 4 * a2 + 8 * a3 + 16 * a4 + 32 * a5 + 64 * a6 + 128 * a7
  PROVE  /\ b \in Byte
         /\ b % 2 = a0           /\ (b \div 2) % 2 = a1
         /\ (b \div 4) % 2 = a2  /\ (b \div 8) % 2 = a3
         /\ (b \div 16) % 2 = a4 /\ (b \div 32) % 2 = a5
         /\ (b \div 64) % 2 = a6 /\ (b \div 128) % 2 = a7
<1>1. b \in Byte
  BY DEF Byte
<1>2. b \in Nat /\ b % 2 = a0 /\ b \div 2 = a1 + 2 * a2 + 4 * a3 + 8 * a4 + 16 * a5 + 32 * a6 + 64 * a7
  OBVIOUS
<1>3. b \div 4 = a2 + 2 * a3 + 4 * a4 + 8 * a5 + 16 * a6 + 32 * a7
  OBVIOUS
<1>4. b \div 8 = a3 + 2 * a4 + 4 * a5 + 8 * a6 + 16 * a7
  OBVIOUS
<1>5. b \div 16 = a4 + 2 * a5 + 4 * a6 + 8 * a7
  OBVIOUS
<1>6. b \div 32 = a5 + 2 * a6 + 4 * a7
  OBVIOUS
<1>7. b \div 64 = a6 + 2 * a7
  OBVIOUS
<1>8. b \div 128 = a7
  OBVIOUS
<1> QED BY <1>1, <1>2, <1>3, <1>4, <1>5, <1>6, <1>7, <1>8

\* A byte is known by its bits.
LEMMA BitsDiffer ==
  ASSUME NEW a \in Byte, NEW b \in Byte, Bits(a) = Bits(b)
  PROVE  a = b
<1>1. /\ a % 2 = b % 2                       /\ (a \div 2) % 2 = (b \div 2) % 2
      /\ (a \div 4) % 2 = (b \div 4) % 2     /\ (a \div 8) % 2 = (b \div 8) % 2
      /\ (a \div 16) % 2 = (b \div 16) % 2   /\ (a \div 32) % 2 = (b \div 32) % 2
      /\ (a \div 64) % 2 = (b \div 64) % 2   /\ (a \div 128) % 2 = (b \div 128) % 2
  <2>1. \A n \in Nat : n % 2 \in 0 .. 1
    OBVIOUS
  <2>2. \A n \in Byte : /\ n \in Nat          /\ (n \div 2) \in Nat   /\ (n \div 4) \in Nat
                        /\ (n \div 8) \in Nat  /\ (n \div 16) \in Nat  /\ (n \div 32) \in Nat
                        /\ (n \div 64) \in Nat /\ (n \div 128) \in Nat
    BY DEF Byte
  <2> DEFINE A == Bits(a)
             B == Bits(b)
  <2>3. /\ 0 \in A <=> a % 2 = 1
        /\ 1 \in A <=> (a \div 2) % 2 = 1
        /\ 2 \in A <=> (a \div 4) % 2 = 1
        /\ 3 \in A <=> (a \div 8) % 2 = 1
        /\ 4 \in A <=> (a \div 16) % 2 = 1
        /\ 5 \in A <=> (a \div 32) % 2 = 1
        /\ 6 \in A <=> (a \div 64) % 2 = 1
        /\ 7 \in A <=> (a \div 128) % 2 = 1
    BY BitsIn
  <2>4. /\ 0 \in B <=> b % 2 = 1
        /\ 1 \in B <=> (b \div 2) % 2 = 1
        /\ 2 \in B <=> (b \div 4) % 2 = 1
        /\ 3 \in B <=> (b \div 8) % 2 = 1
        /\ 4 \in B <=> (b \div 16) % 2 = 1
        /\ 5 \in B <=> (b \div 32) % 2 = 1
        /\ 6 \in B <=> (b \div 64) % 2 = 1
        /\ 7 \in B <=> (b \div 128) % 2 = 1
    BY BitsIn
  <2>5. A = B
    OBVIOUS
  <2> HIDE DEF A, B
  <2> QED BY <2>1, <2>2, <2>3, <2>4, <2>5
<1>2. \A n \in Byte : n = (n % 2) + 2 * ((n \div 2) % 2) + 4 * ((n \div 4) % 2)
                           + 8 * ((n \div 8) % 2) + 16 * ((n \div 16) % 2)
                           + 32 * ((n \div 32) % 2) + 64 * ((n \div 64) % 2)
                           + 128 * ((n \div 128) % 2)
  BY SMTT(30) DEF Byte
<1> QED BY <1>1, <1>2

\* WordOf and BitsOf: a word is sent as it is.
LEMMA WordOfByte ==
  ASSUME NEW w \in SUBSET Ones, NEW k \in 1 .. 4
  PROVE  /\ WordOf(w)[k] \in Byte
         /\ \A i \in 0 .. 7 : i \in Bits(WordOf(w)[k]) <=> 8 * (k - 1) + i \in w
<1> DEFINE a(i) == IF 8 * (k - 1) + i \in w THEN 1 ELSE 0
           b == WordOf(w)[k]
<1>1. /\ a(0) \in 0 .. 1 /\ a(1) \in 0 .. 1 /\ a(2) \in 0 .. 1 /\ a(3) \in 0 .. 1
      /\ a(4) \in 0 .. 1 /\ a(5) \in 0 .. 1 /\ a(6) \in 0 .. 1 /\ a(7) \in 0 .. 1
  OBVIOUS
<1>2. b = a(0) + 2 * a(1) + 4 * a(2) + 8 * a(3) + 16 * a(4) + 32 * a(5) + 64 * a(6) + 128 * a(7)
  <2> DEFINE one(i) == IF 8 * (k - 1) + i \in w THEN Power[i + 1] ELSE 0
  <2>1. b = one(0) + one(1) + one(2) + one(3) + one(4) + one(5) + one(6) + one(7)
    BY DEF WordOf
  <2>2. /\ one(0) = a(0)      /\ one(1) = 2 * a(1)  /\ one(2) = 4 * a(2)  /\ one(3) = 8 * a(3)
        /\ one(4) = 16 * a(4) /\ one(5) = 32 * a(5) /\ one(6) = 64 * a(6) /\ one(7) = 128 * a(7)
    BY Powers
  <2> HIDE DEF a, b, one
  <2> QED BY <2>1, <2>2
<1>3. \A i : a(i) = 1 <=> 8 * (k - 1) + i \in w
  OBVIOUS
<1> HIDE DEF a, b
<1>4. /\ b \in Byte
      /\ b % 2 = a(0)           /\ (b \div 2) % 2 = a(1)
      /\ (b \div 4) % 2 = a(2)  /\ (b \div 8) % 2 = a(3)
      /\ (b \div 16) % 2 = a(4) /\ (b \div 32) % 2 = a(5)
      /\ (b \div 64) % 2 = a(6) /\ (b \div 128) % 2 = a(7)
  <2>1. PICK a0, a1, a2, a3, a4, a5, a6, a7 \in 0 .. 1 :
              /\ a(0) = a0 /\ a(1) = a1 /\ a(2) = a2 /\ a(3) = a3
              /\ a(4) = a4 /\ a(5) = a5 /\ a(6) = a6 /\ a(7) = a7
    BY <1>1
  <2>2. b = a0 + 2 * a1 + 4 * a2 + 8 * a3 + 16 * a4 + 32 * a5 + 64 * a6 + 128 * a7
    BY <1>2, <2>1
  <2>3. /\ b \in Byte
        /\ b % 2 = a0           /\ (b \div 2) % 2 = a1
        /\ (b \div 4) % 2 = a2  /\ (b \div 8) % 2 = a3
        /\ (b \div 16) % 2 = a4 /\ (b \div 32) % 2 = a5
        /\ (b \div 64) % 2 = a6 /\ (b \div 128) % 2 = a7
    BY <2>2, DigitsOfByte
  <2> QED BY <2>1, <2>3
<1>5. /\ 0 \in Bits(b) <=> a(0) = 1
      /\ 1 \in Bits(b) <=> a(1) = 1
      /\ 2 \in Bits(b) <=> a(2) = 1
      /\ 3 \in Bits(b) <=> a(3) = 1
      /\ 4 \in Bits(b) <=> a(4) = 1
      /\ 5 \in Bits(b) <=> a(5) = 1
      /\ 6 \in Bits(b) <=> a(6) = 1
      /\ 7 \in Bits(b) <=> a(7) = 1
  BY <1>4, BitsIn
<1>6. \A i \in 0 .. 7 : i \in Bits(b) <=> a(i) = 1
  BY <1>5
<1>7. b = WordOf(w)[k]
  BY DEF b
<1> QED BY <1>3, <1>4, <1>6, <1>7

\* Putting the checksum into four bytes and taking it out again changes nothing.
LEMMA WordOfBits ==
  ASSUME NEW w \in SUBSET Ones
  PROVE  WordOf(w) \in [1 .. 4 -> Byte] /\ BitsOf(WordOf(w)) = w
<1>1. WordOf(w) \in [1 .. 4 -> Byte]
  <2>1. \A k \in 1 .. 4 : WordOf(w)[k] \in Byte
    BY WordOfByte
  <2>2. WordOf(w) = [k \in 1 .. 4 |-> WordOf(w)[k]]
    BY DEF WordOf
  <2> QED BY <2>1, <2>2
<1>2. \A j : j \in BitsOf(WordOf(w)) <=> \E k \in 1 .. 4 : \E i \in Bits(WordOf(w)[k]) : j = 8 * (k - 1) + i
  BY DEF BitsOf
<1>3. \A k \in 1 .. 4 : Bits(WordOf(w)[k]) \in SUBSET (0 .. 7)
  BY WordOfByte, BitsIn
<1>4. \A j : j \in BitsOf(WordOf(w)) <=> \E k \in 1 .. 4 : \E i \in 0 .. 7 : j = 8 * (k - 1) + i /\ j \in w
  BY <1>2, <1>3, WordOfByte
<1>5. \A j \in Ones : \E k \in 1 .. 4 : \E i \in 0 .. 7 : j = 8 * (k - 1) + i
  <2> TAKE j \in Ones
  <2>1. (j \div 8) + 1 \in 1 .. 4 /\ j % 8 \in 0 .. 7 /\ j = 8 * (((j \div 8) + 1) - 1) + (j % 8)
    BY DEF Ones
  <2> QED BY <2>1
<1>6. \A j : j \in BitsOf(WordOf(w)) <=> j \in w
  BY <1>4, <1>5
<1> QED BY <1>1, <1>6

----------------------------------------------------------------------------
(***************************************************************************)
(* Iteration: what is true of 0 and handed on is true up to n; a start and  *)
(* a step for every number define a function.                               *)
(***************************************************************************)
LEMMA HandedOn ==
  ASSUME NEW n \in Nat, NEW P, 0 \in P, \A k \in 1 .. n : k - 1 \in P => k \in P
  PROVE  \A k \in 0 .. n : k \in P
<1> DEFINE T == (0 .. n) \ P
<1> SUFFICES ASSUME T # {} PROVE FALSE
  OBVIOUS
<1>1. PICK k \in T : \A j \in T : k <= j
  <2>1. T \subseteq Nat
    OBVIOUS
  <2> QED BY <2>1, LeastNumber
<1>2. k # 0 /\ k \in 1 .. n /\ k - 1 \in 0 .. n /\ k - 1 < k
  BY <1>1
<1>3. k - 1 \in P
  BY <1>1, <1>2
<1> QED BY <1>1, <1>2, <1>3

Steps(step, n, S) == step \in [1 .. n -> [S -> S]]

Iterates(f, S, a, n, step) ==
    f \in [0 .. n -> S] /\ f[0] = a /\ \A k \in 1 .. n : f[k] = step[k][f[k - 1]]

\* From a start and a step for every number up to n, all values in between.
LEMMA Iterated ==
  ASSUME NEW S, NEW a \in S, NEW n \in Nat, NEW step, Steps(step, n, S)
  PROVE  \E f : Iterates(f, S, a, n, step)
<1>0. step \in [1 .. n -> [S -> S]]
  BY DEF Steps
<1> DEFINE P == {m \in 0 .. n : \E f \in [0 .. m -> S] :
                    f[0] = a /\ \A k \in 1 .. m : f[k] = step[k][f[k - 1]]}
<1>1. 0 \in P
  <2> DEFINE f == [k \in 0 .. 0 |-> a]
  <2>1. f \in [0 .. 0 -> S] /\ f[0] = a
    OBVIOUS
  <2> HIDE DEF f
  <2> QED BY <2>1
<1>2. ASSUME NEW k \in 1 .. n, k - 1 \in P
      PROVE  k \in P
  <2>1. PICK f \in [0 .. k - 1 -> S] :
              f[0] = a /\ \A j \in 1 .. k - 1 : f[j] = step[j][f[j - 1]]
    BY <1>2
  <2> DEFINE g == [j \in 0 .. k |-> IF j = k THEN step[k][f[k - 1]] ELSE f[j]]
  <2>2. step[k][f[k - 1]] \in S
    BY <1>0
  <2>3. g \in [0 .. k -> S]
    BY <2>2
  <2>4. /\ g[0] = a
        /\ \A j \in 0 .. k - 1 : g[j] = f[j]
        /\ g[k] = step[k][f[k - 1]]
    BY <2>1
  <2> HIDE DEF g
  <2>5. \A j \in 1 .. k : g[j] = step[j][g[j - 1]]
    <3> TAKE j \in 1 .. k
    <3>1. CASE j = k
      BY <3>1, <2>4
    <3>2. CASE j # k
      <4>1. j \in 1 .. k - 1 /\ j - 1 \in 0 .. k - 1 /\ j \in 0 .. k - 1
        BY <3>2
      <4> QED BY <4>1, <2>1, <2>4
    <3> QED BY <3>1, <3>2
  <2> QED BY <2>3, <2>4, <2>5
<1>3. n \in P
  <2>1. \A k \in 1 .. n : k - 1 \in P => k \in P
    BY <1>2
  <2> HIDE DEF P
  <2>2. \A k \in 0 .. n : k \in P
    BY <1>1, <2>1, HandedOn
  <2> QED BY <2>2
<1> QED BY <1>3 DEF Iterates

----------------------------------------------------------------------------
(***************************************************************************)
(* The checksums of the two sides.  Rests(s, f): f[k] is what is left of    *)
(* the first k bytes of s.                                                  *)
(***************************************************************************)
Rests(s, f) ==
    /\ f \in [0 .. Len(s) -> SUBSET Ones]
    /\ f[0] = Ones
    /\ \A k \in 1 .. Len(s) : f[k] = Eight(Xor(f[k - 1], Bits(s[k])))

\* What the checksums read of a sequence of bytes.
LEMMA ByteOfSeq ==
  ASSUME NEW s \in Seq(Byte), NEW k \in 1 .. Len(s)
  PROVE  s[k] \in Byte /\ Bits(s[k]) \in SUBSET (0 .. 7) /\ Bits(s[k]) \in SUBSET Ones
<1>1. s[k] \in Byte
  OBVIOUS
<1>2. Bits(s[k]) \in SUBSET (0 .. 7)
  BY <1>1, BitsIn
<1>3. \A i \in 0 .. 7 : i \in Ones
  BY DEF Ones
<1> QED BY <1>1, <1>2, <1>3

\* crc32_inc goes through the rests with its table.
LEMMA TableRests ==
  ASSUME NEW s \in Seq(Byte)
  PROVE  \E f : Rests(s, f) /\ crc32(s) = Xor(f[Len(s)], Ones)
<1> DEFINE S == SUBSET Ones
           n == Len(s)
           next(k, w) == Xor(crc32_tab[Xor(w, Bits(s[k])) \cap (0 .. 7)], Shr(w, 8))
           step == [k \in 1 .. n |-> [w \in S |-> next(k, w)]]
           c == CHOOSE f : f = [k \in 0 .. n |-> IF k = 0 THEN Xor({}, Ones) ELSE next(k, f[k - 1])]
<1>1. crc32(s) = Xor(c[n], Ones)
  BY DEF crc32, crc32_inc
<1>2. Xor({}, Ones) = Ones /\ Ones \in S
  BY XorSelf
<1>3. ASSUME NEW k \in 1 .. n, NEW w \in S
      PROVE  next(k, w) = Eight(Xor(w, Bits(s[k]))) /\ next(k, w) \in S
  <2>1. Bits(s[k]) \in SUBSET (0 .. 7) /\ Bits(s[k]) \in S
    BY ByteOfSeq
  <2>2. Xor(w, Bits(s[k])) \in S
    BY <2>1, XorWord
  <2>3. Shr(Xor(w, Bits(s[k])), 8) = Shr(w, 8)
    <3>1. \A i \in Nat : i + 8 \notin Bits(s[k])
      BY <2>1
    <3>2. Shr(Bits(s[k]), 8) = {}
      BY <2>1 DEF Shr
    <3>3. Shr(Xor(w, Bits(s[k])), 8) = Xor(Shr(w, 8), Shr(Bits(s[k]), 8))
      BY <2>1, ShrXor DEF Ones
    <3> QED BY <3>2, <3>3, XorSelf
  <2> QED BY <2>2, <2>3, TableDivides, EightWord
<1>4. PICK f \in [0 .. n -> S] :
            f[0] = Ones /\ \A k \in 1 .. n : f[k] = step[k][f[k - 1]]
  <2> HIDE DEF next, S
  <2>1. n \in Nat
    OBVIOUS
  <2>2. Steps(step, n, S)
    BY <1>3 DEF Steps
  <2>3. Ones \in S
    BY <1>2
  <2> HIDE DEF n, step
  <2>4. PICK f : Iterates(f, S, Ones, n, step)
    BY <2>1, <2>2, <2>3, Iterated
  <2> QED BY <2>4 DEF Iterates
<1>5. f = [k \in 0 .. n |-> IF k = 0 THEN Xor({}, Ones) ELSE next(k, f[k - 1])]
  <2>1. \A k \in 0 .. n : k # 0 => f[k - 1] \in S /\ k \in 1 .. n
    OBVIOUS
  <2>2. \A k \in 1 .. n : step[k][f[k - 1]] = next(k, f[k - 1])
    BY <2>1
  <2> HIDE DEF S, n, step, next
  <2>3. \A k \in 0 .. n : f[k] = IF k = 0 THEN Xor({}, Ones) ELSE next(k, f[k - 1])
    BY <1>2, <1>4, <2>1, <2>2
  <2>4. f = [k \in 0 .. n |-> f[k]]
    OBVIOUS
  <2> QED BY <2>3, <2>4
<1>6. c = [k \in 0 .. n |-> IF k = 0 THEN Xor({}, Ones) ELSE next(k, c[k - 1])]
  <2> HIDE DEF next, n
  <2> QED BY <1>5
<1>7. /\ c[0] = Ones
      /\ \A k \in 1 .. n : c[k] = next(k, c[k - 1])
  <2> HIDE DEF next, c
  <2>1. \A k \in 0 .. n : c[k] = IF k = 0 THEN Xor({}, Ones) ELSE next(k, c[k - 1])
    BY <1>6
  <2> QED BY <1>2, <2>1
<1>8. \A k \in 0 .. n : c[k] \in S
  <2> DEFINE P == {k \in 0 .. n : c[k] \in S}
  <2> HIDE DEF c, next
  <2>1. 0 \in P
    BY <1>2, <1>7
  <2>2. \A k \in 1 .. n : k - 1 \in P => k \in P
    BY <1>3, <1>7
  <2>3. n \in Nat
    OBVIOUS
  <2>4. \A k \in 0 .. n : k \in P
    <3> HIDE DEF P, n
    <3> QED BY <2>1, <2>2, <2>3, HandedOn
  <2> QED BY <2>4
<1>9. c \in [0 .. n -> S]
  <2> HIDE DEF next
  <2>1. c = [k \in 0 .. n |-> c[k]]
    <3> DEFINE d == c
    <3>1. d = [k \in 0 .. n |-> IF k = 0 THEN Xor({}, Ones) ELSE next(k, d[k - 1])]
      BY <1>6
    <3> HIDE DEF d, n
    <3>2. d = [k \in 0 .. n |-> d[k]]
      BY <3>1
    <3> QED BY <3>2 DEF d
  <2> HIDE DEF c, n, S
  <2> QED BY <1>8, <2>1
<1>10. Rests(s, c)
  <2> HIDE DEF next, c
  <2>1. \A k \in 1 .. n : c[k] = Eight(Xor(c[k - 1], Bits(s[k])))
    BY <1>3, <1>7, <1>8
  <2> QED BY <1>7, <1>9, <2>1 DEF Rests
<1> HIDE DEF c
<1> QED BY <1>1, <1>10

\* One bit of the message after the other is the same as its eight bits at once.
LEMMA BitByBit ==
  ASSUME NEW w \in SUBSET Ones, NEW b \in SUBSET (0 .. 7),
         NEW g \in [0 .. 8 -> SUBSET Ones], g[0] = w,
         \A i \in 0 .. 7 : g[i + 1] = Times_x(Xor(g[i], IF i \in b THEN {0} ELSE {}))
  PROVE  g[8] = Eight(Xor(w, b))
<1> DEFINE h(i) == Xor(g[i], Shr(b, i))
<1>1. b \in SUBSET Ones /\ b \in SUBSET Nat
  BY DEF Ones
<1>2. ASSUME NEW i \in 0 .. 7
      PROVE  h(i + 1) = Times_x(h(i))
  <2> DEFINE one == IF i \in b THEN {0} ELSE {}
             up == Shr(b, i) \ {0}
  <2>1. Shr(b, i) \in SUBSET Ones /\ i \in Nat /\ 0 + i = i
    BY <1>1, ShrWord
  <2>2. 0 \in Shr(b, i) <=> i \in b
    BY <1>1, <2>1, ShrIn
  <2>3. Xor(one, up) = Shr(b, i) /\ one \in SUBSET Ones /\ up \in SUBSET Ones
    BY <2>1, <2>2 DEF Xor, Ones
  <2>4. Shr(up, 1) = Shr(Shr(b, i), 1)
    <3>1. \A z : Shr(z \ {0}, 1) = Shr(z, 1)
      BY DEF Shr
    <3> QED BY <3>1
  <2>5. Shr(Shr(b, i), 1) = Shr(b, i + 1)
    BY <1>1, <2>1, ShrShr
  <2> HIDE DEF up, one
  <2>6. Times_x(up) = Shr(b, i + 1)
    <3>1. 0 \notin up
      BY DEF up
    <3> QED BY <2>3, <2>4, <2>5, <3>1, DividedShifts
  <2>7. g[i] \in SUBSET Ones
    OBVIOUS
  <2>8. h(i) = Xor(Xor(g[i], one), up)
    BY <2>3, XorAssociative
  <2>9. Times_x(h(i)) = Xor(Times_x(Xor(g[i], one)), Times_x(up))
    <3>1. Xor(g[i], one) \in SUBSET Ones
      BY <2>3, <2>7, XorWord
    <3> QED BY <2>3, <2>8, <3>1, DividedXor
  <2>10. Times_x(Xor(g[i], one)) = g[i + 1]
    BY DEF one
  <2> QED BY <2>6, <2>9, <2>10
<1>3. h(0) = Xor(w, b)
  <2>1. Shr(b, 0) = b
    <3>1. \A i \in b : i \in Nat /\ i - 0 = i /\ i >= 0
      BY <1>1
    <3> QED BY <3>1 DEF Shr
  <2> QED BY <2>1
<1>4. h(8) = g[8]
  <2>1. Shr(b, 8) = {}
    BY DEF Shr
  <2> QED BY <2>1, XorSelf
<1> HIDE DEF h
<1>5. /\ h(1) = Times_x(h(0)) /\ h(2) = Times_x(h(1)) /\ h(3) = Times_x(h(2))
      /\ h(4) = Times_x(h(3)) /\ h(5) = Times_x(h(4)) /\ h(6) = Times_x(h(5))
      /\ h(7) = Times_x(h(6)) /\ h(8) = Times_x(h(7))
  <2>1. /\ h(0 + 1) = Times_x(h(0)) /\ h(1 + 1) = Times_x(h(1)) /\ h(2 + 1) = Times_x(h(2))
        /\ h(3 + 1) = Times_x(h(3)) /\ h(4 + 1) = Times_x(h(4)) /\ h(5 + 1) = Times_x(h(5))
        /\ h(6 + 1) = Times_x(h(6)) /\ h(7 + 1) = Times_x(h(7))
    BY <1>2
  <2> QED BY <2>1
<1>6. Eight(h(0)) = h(8)
  BY <1>5 DEF Eight
<1> QED BY <1>3, <1>4, <1>6

\* The loader goes through the same rests, one bit after the other.
LEMMA BitwiseRests ==
  ASSUME NEW s \in Seq(Byte)
  PROVE  \E f : Rests(s, f) /\ Checksum(s) = Xor(f[Len(s)], Ones)
<1> DEFINE S == SUBSET Ones
           n == 8 * Len(s)
           bit(k) == IF (k - 1) % 8 \in Bits(s[((k - 1) \div 8) + 1]) THEN {0} ELSE {}
           next(k, w) == UNION {Times_x(Xor(v, bit(k))) : v \in {w}}
           step == [k \in 1 .. n |-> [w \in S |-> next(k, w)]]
           c == CHOOSE f : f = [k \in 0 .. n |-> IF k = 0 THEN Ones ELSE next(k, f[k - 1])]
<1>1. Checksum(s) = Xor(c[n], Ones)
  BY DEF Checksum
<1>2. Ones \in S
  OBVIOUS
<1>3. ASSUME NEW k \in 1 .. n, NEW w \in S
      PROVE  next(k, w) = Times_x(Xor(w, bit(k))) /\ next(k, w) \in S
  <2>1. bit(k) \in S
    BY DEF Ones
  <2> HIDE DEF bit
  <2>2. Xor(w, bit(k)) \in S
    BY <2>1, XorWord
  <2>3. next(k, w) = Times_x(Xor(w, bit(k)))
    OBVIOUS
  <2> QED BY <2>2, <2>3, DividedWord
<1>4. PICK f \in [0 .. n -> S] :
            f[0] = Ones /\ \A k \in 1 .. n : f[k] = step[k][f[k - 1]]
  <2> HIDE DEF next, S
  <2>1. n \in Nat
    OBVIOUS
  <2>2. Steps(step, n, S)
    BY <1>3 DEF Steps
  <2>3. Ones \in S
    BY <1>2
  <2> HIDE DEF n, step
  <2>4. PICK f : Iterates(f, S, Ones, n, step)
    BY <2>1, <2>2, <2>3, Iterated
  <2> QED BY <2>4 DEF Iterates
<1>5. f = [k \in 0 .. n |-> IF k = 0 THEN Ones ELSE next(k, f[k - 1])]
  <2> HIDE DEF next, S
  <2>1. \A k \in 0 .. n : k # 0 => f[k - 1] \in S /\ k \in 1 .. n
    OBVIOUS
  <2>2. \A k \in 1 .. n : step[k][f[k - 1]] = next(k, f[k - 1])
    BY <2>1
  <2> HIDE DEF n, step
  <2>3. \A k \in 0 .. n : f[k] = IF k = 0 THEN Ones ELSE next(k, f[k - 1])
    BY <1>4, <2>1, <2>2
  <2>4. f = [k \in 0 .. n |-> f[k]]
    OBVIOUS
  <2> QED BY <2>3, <2>4
<1>6. c = [k \in 0 .. n |-> IF k = 0 THEN Ones ELSE next(k, c[k - 1])]
  <2> HIDE DEF next, n
  <2> QED BY <1>5
<1>7. /\ c[0] = Ones
      /\ \A k \in 1 .. n : c[k] = next(k, c[k - 1])
  <2> HIDE DEF next, c
  <2>1. \A k \in 0 .. n : c[k] = IF k = 0 THEN Ones ELSE next(k, c[k - 1])
    BY <1>6
  <2> QED BY <2>1
<1>8. \A k \in 0 .. n : c[k] \in S
  <2> DEFINE P == {k \in 0 .. n : c[k] \in S}
  <2> HIDE DEF c, next
  <2>1. 0 \in P
    BY <1>2, <1>7
  <2>2. \A k \in 1 .. n : k - 1 \in P => k \in P
    BY <1>3, <1>7
  <2>3. n \in Nat
    OBVIOUS
  <2>4. \A k \in 0 .. n : k \in P
    <3> HIDE DEF P, n
    <3> QED BY <2>1, <2>2, <2>3, HandedOn
  <2> QED BY <2>4
<1> HIDE DEF c
<1> DEFINE r == [j \in 0 .. Len(s) |-> c[8 * j]]
<1>9. r \in [0 .. Len(s) -> SUBSET Ones] /\ r[0] = Ones /\ r[Len(s)] = c[n]
  <2>1. \A j \in 0 .. Len(s) : 8 * j \in 0 .. n
    OBVIOUS
  <2>2. Len(s) \in 0 .. Len(s) /\ 0 \in 0 .. Len(s) /\ 8 * 0 = 0
    OBVIOUS
  <2> HIDE DEF n
  <2>3. \A j \in 0 .. Len(s) : c[8 * j] \in SUBSET Ones
    BY <1>8, <2>1
  <2> QED BY <1>7, <2>2, <2>3 DEF n
<1>10. ASSUME NEW j \in 1 .. Len(s)
       PROVE  r[j] = Eight(Xor(r[j - 1], Bits(s[j])))
  <2> DEFINE g == [i \in 0 .. 8 |-> c[8 * (j - 1) + i]]
             b == Bits(s[j])
  <2>1. \A i \in 0 .. 8 : 8 * (j - 1) + i \in 0 .. n
    OBVIOUS
  <2>2. g \in [0 .. 8 -> SUBSET Ones]
    <3> HIDE DEF n
    <3> QED BY <1>8, <2>1
  <2>3. g[0] = r[j - 1] /\ g[8] = r[j]
    <3>1. 8 * (j - 1) + 0 = 8 * (j - 1) /\ 8 * (j - 1) + 8 = 8 * j
      OBVIOUS
    <3>2. j - 1 \in 0 .. Len(s) /\ j \in 0 .. Len(s)
      OBVIOUS
    <3> QED BY <3>1, <3>2
  <2>4. ASSUME NEW i \in 0 .. 7
        PROVE  g[i + 1] = Times_x(Xor(g[i], IF i \in b THEN {0} ELSE {}))
    <3> DEFINE k == 8 * (j - 1) + i + 1
    <3>1. k \in 1 .. n /\ k - 1 = 8 * (j - 1) + i /\ (k - 1) % 8 = i /\ (k - 1) \div 8 = j - 1
      OBVIOUS
    <3>2. g[i + 1] = c[k] /\ g[i] = c[k - 1]
      <4>1. i + 1 \in 0 .. 8 /\ i \in 0 .. 8 /\ 8 * (j - 1) + (i + 1) = k
        OBVIOUS
      <4> HIDE DEF k
      <4> QED BY <3>1, <4>1
    <3>3. (j - 1) + 1 = j
      OBVIOUS
    <3> HIDE DEF k, g
    <3>4. bit(k) = IF i \in b THEN {0} ELSE {}
      BY <3>1, <3>3
    <3>5. c[k - 1] \in S
      <4>1. k - 1 \in 0 .. n
        BY <3>1
      <4> HIDE DEF S, n
      <4> QED BY <1>8, <4>1
    <3> HIDE DEF S, n, next, bit, b
    <3>6. c[k] = Times_x(Xor(c[k - 1], bit(k)))
      BY <1>3, <1>7, <3>1, <3>5
    <3> QED BY <3>2, <3>4, <3>6
  <2>5. b \in SUBSET (0 .. 7)
    BY ByteOfSeq
  <2>6. g[0] \in SUBSET Ones
    BY <2>2
  <2> HIDE DEF g, b, r
  <2>7. \A i \in 0 .. 7 : g[i + 1] = Times_x(Xor(g[i], IF i \in b THEN {0} ELSE {}))
    BY <2>4
  <2>8. g[8] = Eight(Xor(g[0], b))
    BY <2>2, <2>5, <2>6, <2>7, BitByBit
  <2> QED BY <2>3, <2>8 DEF b
<1>11. Rests(s, r)
  <2> HIDE DEF r
  <2> QED BY <1>9, <1>10 DEF Rests
<1> HIDE DEF r, n
<1> QED BY <1>1, <1>9, <1>11

\* What is left of the first bytes depends on them alone.
LEMMA SameRests ==
  ASSUME NEW s \in Seq(Byte), NEW f, NEW g, Rests(s, f), Rests(s, g)
  PROVE  f[Len(s)] = g[Len(s)]
<1> DEFINE P == {k \in 0 .. Len(s) : f[k] = g[k]}
<1>1. 0 \in P
  BY DEF Rests
<1>2. \A k \in 1 .. Len(s) : k - 1 \in P => k \in P
  BY DEF Rests
<1>3. Len(s) \in Nat /\ Len(s) \in 0 .. Len(s)
  OBVIOUS
<1>4. \A k \in 0 .. Len(s) : k \in P
  <2> HIDE DEF P
  <2> QED BY <1>1, <1>2, <1>3, HandedOn
<1> QED BY <1>3, <1>4

\* crc32 of boot-crc32.h, table and all, is the checksum of the loader, the
\* remainder of the division bit by bit, whatever the program.
THEOREM TableIsDivision ==
  ASSUME NEW s \in Seq(Byte)
  PROVE  crc32(s) = Checksum(s)
<1>1. PICK f : Rests(s, f) /\ crc32(s) = Xor(f[Len(s)], Ones)
  BY TableRests
<1>2. PICK g : Rests(s, g) /\ Checksum(s) = Xor(g[Len(s)], Ones)
  BY BitwiseRests
<1> QED BY <1>1, <1>2, SameRests

\* A checksum is a word.
LEMMA crc32Word ==
  ASSUME NEW s \in Seq(Byte)
  PROVE  crc32(s) \in SUBSET Ones
<1>1. PICK f : Rests(s, f) /\ crc32(s) = Xor(f[Len(s)], Ones)
  BY TableRests
<1>2. f[Len(s)] \in SUBSET Ones
  <2>1. Len(s) \in 0 .. Len(s)
    OBVIOUS
  <2> QED BY <1>1, <2>1 DEF Rests
<1> QED BY <1>1, <1>2, XorWord

\* A byte that arrives with another value is noticed, wherever it is in the
\* program and whatever the values: the register differs behind it, and no byte
\* that follows makes it agree again.
THEOREM ChangeIsNoticed ==
  ASSUME NEW s \in Seq(Byte), NEW t \in Seq(Byte), Len(s) = Len(t),
         NEW i \in 1 .. Len(s), s[i] # t[i],
         \A j \in 1 .. Len(s) : j # i => s[j] = t[j]
  PROVE  Checksum(s) # Checksum(t)
<1>1. PICK f : Rests(s, f) /\ Checksum(s) = Xor(f[Len(s)], Ones)
  BY BitwiseRests
<1>2. PICK g : Rests(t, g) /\ Checksum(t) = Xor(g[Len(t)], Ones)
  BY BitwiseRests
<1> DEFINE n == Len(s)
           P == {k \in 0 .. n : IF k < i THEN f[k] = g[k] ELSE f[k] # g[k]}
<1>3. n \in Nat /\ n \in 0 .. n /\ ~ (n < i) /\ 0 \in 0 .. n /\ 0 < i
  OBVIOUS
<1>4. 0 \in P
  BY <1>1, <1>2, <1>3 DEF Rests
<1>5. ASSUME NEW k \in 1 .. n, k - 1 \in P
      PROVE  k \in P
  <2> DEFINE x == Xor(f[k - 1], Bits(s[k]))
             y == Xor(g[k - 1], Bits(t[k]))
  <2>1. f[k - 1] \in SUBSET Ones /\ g[k - 1] \in SUBSET Ones
    <3>1. k - 1 \in 0 .. n /\ Len(s) = n /\ Len(t) = n
      BY <1>3
    <3>2. f \in [0 .. n -> SUBSET Ones] /\ g \in [0 .. n -> SUBSET Ones]
      BY <1>1, <1>2, <3>1 DEF Rests
    <3> QED BY <3>1, <3>2
  <2>2. /\ s[k] \in Byte /\ t[k] \in Byte
        /\ Bits(s[k]) \in SUBSET Ones /\ Bits(t[k]) \in SUBSET Ones
    BY ByteOfSeq
  <2>3. x \in SUBSET Ones /\ y \in SUBSET Ones
    BY <2>1, <2>2, XorWord
  <2>4. f[k] = Eight(x) /\ g[k] = Eight(y)
    BY <1>1, <1>2 DEF Rests
  <2>5. CASE k < i
    <3>1. f[k - 1] = g[k - 1] /\ s[k] = t[k]
      BY <1>5, <2>5
    <3>2. f[k] = g[k]
      BY <2>4, <3>1
    <3> QED BY <2>5, <3>2
  <2>6. CASE k = i
    <3>1. f[k - 1] = g[k - 1] /\ s[k] # t[k]
      BY <1>5, <2>6
    <3>2. Bits(s[k]) # Bits(t[k])
      BY <2>2, <3>1, BitsDiffer
    <3>3. x # y
      <4>1. SUFFICES ASSUME x = y PROVE FALSE
        OBVIOUS
      <4>2. Xor(Bits(s[k]), f[k - 1]) = Xor(Bits(t[k]), f[k - 1])
        BY <3>1, <4>1, XorSelf
      <4> QED BY <3>2, <4>2, XorCancels
    <3> HIDE DEF x, y
    <3>4. f[k] # g[k]
      BY <2>3, <2>4, <3>3, EightLosesNothing
    <3> QED BY <2>6, <3>4
  <2>7. CASE k > i
    <3>1. f[k - 1] # g[k - 1] /\ s[k] = t[k]
      BY <1>5, <2>7
    <3>2. x # y
      BY <3>1, XorCancels
    <3> HIDE DEF x, y
    <3>3. f[k] # g[k]
      BY <2>3, <2>4, <3>2, EightLosesNothing
    <3> QED BY <2>7, <3>3
  <2> QED BY <2>5, <2>6, <2>7
<1>6. \A k \in 1 .. n : k - 1 \in P => k \in P
  BY <1>5
<1>7. \A k \in 0 .. n : k \in P
  <2> HIDE DEF P, n
  <2> QED BY <1>3, <1>4, <1>6, HandedOn
<1>8. f[n] # g[n]
  <2>1. n \in P
    <3> HIDE DEF P
    <3> QED BY <1>3, <1>7
  <2> QED BY <1>3, <2>1
<1> QED BY <1>1, <1>2, <1>8, XorCancels

----------------------------------------------------------------------------
(***************************************************************************)
(* Sequences of bytes.                                                      *)
(***************************************************************************)
LEMMA Joined ==
  ASSUME NEW s \in Seq(Byte), NEW t \in Seq(Byte)
  PROVE  /\ s \o t \in Seq(Byte) /\ Len(s) \in Nat /\ Len(t) \in Nat
         /\ Len(s \o t) = Len(s) + Len(t)
         /\ \A i \in 1 .. Len(s) : (s \o t)[i] = s[i]
         /\ \A i \in 1 .. Len(t) : (s \o t)[Len(s) + i] = t[i]
<1>1. /\ s \o t \in Seq(Byte) /\ Len(s \o t) = Len(s) + Len(t)
      /\ \A i \in 1 .. Len(s) + Len(t) : (s \o t)[i] = IF i <= Len(s) THEN s[i] ELSE t[i - Len(s)]
  BY ConcatProperties
<1>2. Len(s) \in Nat /\ Len(t) \in Nat
  BY LenProperties
<1> DEFINE r == s \o t
<1> HIDE DEF r
<1>3. \A i \in 1 .. Len(s) + Len(t) : r[i] = IF i <= Len(s) THEN s[i] ELSE t[i - Len(s)]
  BY <1>1 DEF r
<1>4. ASSUME NEW i \in 1 .. Len(t) PROVE r[Len(s) + i] = t[i]
  <2>1. Len(s) + i \in 1 .. Len(s) + Len(t) /\ ~(Len(s) + i <= Len(s)) /\ Len(s) + i - Len(s) = i
    BY <1>2
  <2> QED BY <1>3, <2>1
<1>5. \A i \in 1 .. Len(s) : r[i] = s[i]
  BY <1>2, <1>3
<1> QED BY <1>1, <1>2, <1>4, <1>5 DEF r

\* The n bytes from m on.
LEMMA Part ==
  ASSUME NEW s \in Seq(Byte), NEW m \in Nat, NEW n \in Nat, m + n <= Len(s)
  PROVE  /\ SubSeq(s, m + 1, m + n) \in Seq(Byte)
         /\ Len(SubSeq(s, m + 1, m + n)) = n
         /\ \A i \in 1 .. n : SubSeq(s, m + 1, m + n)[i] = s[m + i]
<1>1. Len(s) \in Nat
  BY LenProperties
<1>2. \A i \in m + 1 .. m + n : s[i] \in Byte
  BY ElementOfSeq, <1>1
<1> DEFINE a == m + 1
           b == m + n
           r == SubSeq(s, a, b)
<1>3. a \in Int /\ b \in Int /\ \A i \in a .. b : s[i] \in Byte
  BY <1>2
<1>4. /\ b - a + 1 = n /\ (a <= b <=> n > 0)
      /\ \A i \in 1 .. n : i \in 1 .. b - a + 1 /\ a + i - 1 = m + i
  OBVIOUS
<1>5. /\ r \in Seq(Byte)
      /\ Len(r) = IF a <= b THEN b - a + 1 ELSE 0
      /\ \A i \in 1 .. b - a + 1 : r[i] = s[a + i - 1]
  <2> HIDE DEF a, b
  <2> QED BY <1>3, SubSeqProperties
<1> HIDE DEF r
<1>6. Len(r) = n
  <2> HIDE DEF a, b
  <2> QED BY <1>4, <1>5
<1>7. \A i \in 1 .. n : r[i] = s[m + i]
  <2> HIDE DEF a, b
  <2> QED BY <1>4, <1>5
<1> QED BY <1>5, <1>6, <1>7 DEF r

\* Without its first n bytes.
Drop(s, n) == SubSeq(s, n + 1, Len(s))

\* What is left when n bytes are taken.
LEMMA DropIs ==
  ASSUME NEW s \in Seq(Byte), NEW n \in Nat, n <= Len(s)
  PROVE  /\ Drop(s, n) \in Seq(Byte)
         /\ Len(Drop(s, n)) = Len(s) - n
         /\ \A i \in 1 .. Len(s) - n : Drop(s, n)[i] = s[n + i]
<1>1. PICK m \in Nat : m = Len(s) - n /\ n + m = Len(s)
  BY LenProperties
<1> QED BY <1>1, Part DEF Drop

\* Sequences with the same bytes are the same.
LEMMA Same ==
  ASSUME NEW s \in Seq(Byte), NEW t \in Seq(Byte), Len(s) = Len(t),
         \A i \in 1 .. Len(s) : s[i] = t[i]
  PROVE  s = t
BY SeqEqual

\* Taking one byte is Head and Tail.
LEMMA DropTail ==
  ASSUME NEW s \in Seq(Byte), s # << >>
  PROVE  Len(s) >= 1 /\ Tail(s) = Drop(s, 1) /\ Head(s) = s[1] /\ s[1] \in Byte
<1>1. Len(s) \in Nat /\ Len(s) >= 1
  BY EmptySeq
<1>2. Head(s) = s[1] /\ s[1] \in Byte
  BY <1>1, ElementOfSeq
<1>3. /\ Tail(s) \in Seq(Byte) /\ Len(Tail(s)) = Len(s) - 1
      /\ \A i \in 1 .. Len(Tail(s)) : Tail(s)[i] = s[i + 1]
  BY HeadTailProperties
<1> DEFINE t == Tail(s)
           d == Drop(s, 1)
<1>4. d \in Seq(Byte) /\ Len(d) = Len(s) - 1 /\ \A i \in 1 .. Len(s) - 1 : d[i] = s[1 + i]
  BY <1>1, DropIs
<1>5. t \in Seq(Byte) /\ Len(t) = Len(d) /\ \A i \in 1 .. Len(t) : t[i] = s[i + 1]
  BY <1>3, <1>4
<1> HIDE DEF t, d
<1>6. \A i \in 1 .. Len(t) : t[i] = d[i]
  BY <1>1, <1>4, <1>5
<1>7. t = d
  BY <1>4, <1>5, <1>6, Same
<1> QED BY <1>1, <1>2, <1>7 DEF t, d

\* What is taken from the front leaves the back alone.
LEMMA DropJoined ==
  ASSUME NEW s \in Seq(Byte), NEW t \in Seq(Byte), NEW n \in Nat, n <= Len(s)
  PROVE  Drop(s \o t, n) = Drop(s, n) \o t
<1> DEFINE q == s \o t
           d == Drop(q, n)
           e == Drop(s, n)
           f == e \o t
<1>1. /\ q \in Seq(Byte) /\ Len(q) = Len(s) + Len(t) /\ Len(s) \in Nat /\ Len(t) \in Nat
      /\ \A i \in 1 .. Len(s) : q[i] = s[i]
      /\ \A i \in 1 .. Len(t) : q[Len(s) + i] = t[i]
  BY Joined
<1> HIDE DEF q
<1>2. d \in Seq(Byte) /\ Len(d) = Len(q) - n /\ \A i \in 1 .. Len(q) - n : d[i] = q[n + i]
  <2>1. n <= Len(q)
    BY <1>1
  <2> QED BY <1>1, <2>1, DropIs
<1>3. e \in Seq(Byte) /\ Len(e) = Len(s) - n /\ \A i \in 1 .. Len(s) - n : e[i] = s[n + i]
  BY DropIs
<1> HIDE DEF d, e
<1>4. /\ f \in Seq(Byte) /\ Len(f) = Len(e) + Len(t)
      /\ \A i \in 1 .. Len(e) : f[i] = e[i]
      /\ \A i \in 1 .. Len(t) : f[Len(e) + i] = t[i]
  BY <1>3, Joined
<1> HIDE DEF f
<1>5. Len(d) = Len(f)
  BY <1>1, <1>2, <1>3, <1>4
<1>6. ASSUME NEW i \in 1 .. Len(d) PROVE d[i] = f[i]
  <2>1. d[i] = q[n + i]
    BY <1>2
  <2>2. CASE i <= Len(s) - n
    <3>1. i \in 1 .. Len(e) /\ n + i \in 1 .. Len(s)
      BY <1>1, <1>3, <2>2
    <3>2. q[n + i] = s[n + i] /\ f[i] = e[i] /\ e[i] = s[n + i]
      BY <1>1, <1>3, <1>4, <2>2, <3>1
    <3> QED BY <2>1, <3>2
  <2>3. CASE i > Len(s) - n
    <3>1. PICK j \in 1 .. Len(t) : i = Len(s) - n + j
      <4>0. Len(s) - n \in Nat
        BY LenProperties
      <4>1. PICK m \in Nat : m = Len(s) - n
        BY <4>0
      <4>2. i - m \in 1 .. Len(t) /\ i = m + (i - m)
        BY <1>1, <1>2, <2>3, <4>1
      <4> QED BY <4>1, <4>2
    <3>2. n + i = Len(s) + j /\ i = Len(e) + j
      BY <1>1, <1>3, <3>1
    <3>3. q[Len(s) + j] = t[j] /\ f[Len(e) + j] = t[j]
      BY <1>1, <1>4
    <3> QED BY <2>1, <3>2, <3>3
  <2> QED BY <1>1, <2>2, <2>3
<1>7. d = f
  BY <1>2, <1>4, <1>5, <1>6, Same
<1> QED BY <1>7 DEF d, f, q, e

\* Taking m bytes and then n is taking m + n.
LEMMA DropDropped ==
  ASSUME NEW s \in Seq(Byte), NEW m \in Nat, NEW n \in Nat, m + n <= Len(s)
  PROVE  Drop(Drop(s, m), n) = Drop(s, m + n)
<1> DEFINE d == Drop(s, m)
           e == Drop(d, n)
           f == Drop(s, m + n)
<1>0. Len(s) \in Nat /\ m <= Len(s) /\ m + n \in Nat
  BY LenProperties
<1>1. d \in Seq(Byte) /\ Len(d) = Len(s) - m /\ \A i \in 1 .. Len(s) - m : d[i] = s[m + i]
  BY <1>0, DropIs
<1> HIDE DEF d
<1>2. n <= Len(d)
  BY <1>0, <1>1
<1>3. e \in Seq(Byte) /\ Len(e) = Len(d) - n /\ \A i \in 1 .. Len(d) - n : e[i] = d[n + i]
  BY <1>1, <1>2, DropIs
<1>4. f \in Seq(Byte) /\ Len(f) = Len(s) - (m + n) /\ \A i \in 1 .. Len(s) - (m + n) : f[i] = s[m + n + i]
  BY <1>0, DropIs
<1> HIDE DEF e, f
<1>5. Len(e) = Len(f)
  BY <1>0, <1>1, <1>3, <1>4
<1>6. ASSUME NEW i \in 1 .. Len(e) PROVE e[i] = f[i]
  <2>1. n + i \in 1 .. Len(s) - m /\ m + (n + i) = m + n + i
    BY <1>0, <1>1, <1>3
  <2>2. e[i] = d[n + i] /\ d[n + i] = s[m + (n + i)] /\ f[i] = s[m + n + i]
    BY <1>1, <1>3, <1>4, <1>5, <2>1
  <2> QED BY <2>1, <2>2
<1>7. e = f
  BY <1>3, <1>4, <1>5, <1>6, Same
<1> QED BY <1>7 DEF d, e, f

\* Taking all of s, and n more.
LEMMA DropBehind ==
  ASSUME NEW s \in Seq(Byte), NEW t \in Seq(Byte), NEW n \in Nat, n <= Len(t)
  PROVE  Drop(s \o t, Len(s) + n) = Drop(t, n)
<1> DEFINE q == s \o t
           m == Len(s) + n
           d == Drop(q, m)
           e == Drop(t, n)
<1>1. /\ q \in Seq(Byte) /\ Len(q) = Len(s) + Len(t) /\ Len(s) \in Nat /\ Len(t) \in Nat
      /\ \A i \in 1 .. Len(t) : q[Len(s) + i] = t[i]
  BY Joined
<1>2. m \in Nat /\ m <= Len(q)
  BY <1>1
<1> HIDE DEF q
<1>3. d \in Seq(Byte) /\ Len(d) = Len(q) - m /\ \A i \in 1 .. Len(q) - m : d[i] = q[m + i]
  <2> HIDE DEF m
  <2> QED BY <1>1, <1>2, DropIs
<1>4. e \in Seq(Byte) /\ Len(e) = Len(t) - n /\ \A i \in 1 .. Len(t) - n : e[i] = t[n + i]
  BY DropIs
<1> HIDE DEF d, e
<1>5. Len(d) = Len(e)
  BY <1>1, <1>3, <1>4
<1>6. ASSUME NEW i \in 1 .. Len(d) PROVE d[i] = e[i]
  <2>1. i \in 1 .. Len(q) - m /\ i \in 1 .. Len(t) - n /\ n + i \in 1 .. Len(t)
    BY <1>1, <1>3, <1>4, <1>5
  <2>2. m + i = Len(s) + (n + i)
    BY <1>1, <2>1
  <2>3. q[Len(s) + (n + i)] = t[n + i]
    BY <1>1, <2>1
  <2>4. d[i] = q[m + i] /\ e[i] = t[n + i]
    BY <1>3, <1>4, <2>1
  <2> QED BY <2>2, <2>3, <2>4
<1>7. d = e
  BY <1>3, <1>4, <1>5, <1>6, Same
<1> QED BY <1>7 DEF d, e, q, m

----------------------------------------------------------------------------
(***************************************************************************)
(* Words in a sequence of bytes.                                            *)
(***************************************************************************)
Words == {GET_PROG_INFO, PUT_PROG_INFO, GET_CODE, PUT_CODE, BOOT_SUCCESS, BOOT_ERROR,
          PRINT_STRING, ARMBASE, <<0, 0, 0, 0>>}

\* The words of the dialogue are four bytes each.
LEMMA WordsAre ==
  \A w \in Words : w \in Seq(Byte) /\ Len(w) = 4
<1>1. /\ GET_PROG_INFO \in Seq(Byte) /\ Len(GET_PROG_INFO) = 4
      /\ PUT_PROG_INFO \in Seq(Byte) /\ Len(PUT_PROG_INFO) = 4
      /\ GET_CODE \in Seq(Byte) /\ Len(GET_CODE) = 4
      /\ PUT_CODE \in Seq(Byte) /\ Len(PUT_CODE) = 4
      /\ BOOT_SUCCESS \in Seq(Byte) /\ Len(BOOT_SUCCESS) = 4
      /\ BOOT_ERROR \in Seq(Byte) /\ Len(BOOT_ERROR) = 4
      /\ PRINT_STRING \in Seq(Byte) /\ Len(PRINT_STRING) = 4
      /\ ARMBASE \in Seq(Byte) /\ Len(ARMBASE) = 4
      /\ <<0, 0, 0, 0>> \in Seq(Byte) /\ Len(<<0, 0, 0, 0>>) = 4
  BY DEF GET_PROG_INFO, PUT_PROG_INFO, GET_CODE, PUT_CODE, BOOT_SUCCESS, BOOT_ERROR,
         PRINT_STRING, ARMBASE, Byte
<1> QED BY <1>1 DEF Words

\* A word behind what was taken stays where it is.
LEMMA AtDropped ==
  ASSUME NEW s \in Seq(Byte), NEW n \in Nat, n <= Len(s), NEW w,
         NEW i \in 1 .. Len(s) - n - 3
  PROVE  At(w, Drop(s, n), i) <=> At(w, s, n + i)
<1>1. \A j \in 1 .. Len(s) - n : Drop(s, n)[j] = s[n + j]
  BY DropIs
<1>2. \A k \in 1 .. 4 : i + k - 1 \in 1 .. Len(s) - n /\ n + (i + k - 1) = n + i + k - 1
  BY LenProperties
<1>3. \A k \in 1 .. 4 : Drop(s, n)[i + k - 1] = s[n + i + k - 1]
  BY <1>1, <1>2
<1> QED BY <1>3 DEF At

\* A word in the front stays when more is said.
LEMMA AtJoined ==
  ASSUME NEW s \in Seq(Byte), NEW t \in Seq(Byte), NEW w, NEW i \in 1 .. Len(s) - 3
  PROVE  At(w, s \o t, i) <=> At(w, s, i)
<1>1. \A j \in 1 .. Len(s) : (s \o t)[j] = s[j]
  BY Joined
<1>2. \A k \in 1 .. 4 : i + k - 1 \in 1 .. Len(s)
  BY LenProperties
<1>3. \A k \in 1 .. 4 : (s \o t)[i + k - 1] = s[i + k - 1]
  BY <1>1, <1>2
<1> QED BY <1>3 DEF At

\* A word in the back is found behind the front.
LEMMA AtBehind ==
  ASSUME NEW s \in Seq(Byte), NEW t \in Seq(Byte), NEW w, NEW i \in 1 .. Len(t) - 3
  PROVE  At(w, s \o t, Len(s) + i) <=> At(w, t, i)
<1>1. /\ \A j \in 1 .. Len(t) : (s \o t)[Len(s) + j] = t[j]
      /\ Len(s) \in Nat /\ Len(t) \in Nat
  BY Joined
<1>2. \A k \in 1 .. 4 : i + k - 1 \in 1 .. Len(t) /\ Len(s) + (i + k - 1) = Len(s) + i + k - 1
  BY <1>1
<1>3. \A k \in 1 .. 4 : (s \o t)[Len(s) + i + k - 1] = t[i + k - 1]
  BY <1>1, <1>2
<1> QED BY <1>3 DEF At

\* The first four bytes.
LEMMA AtFirst ==
  ASSUME NEW s \in Seq(Byte), Len(s) >= 4, NEW w \in Words
  PROVE  At(w, s, 1) <=> SubSeq(s, 1, 4) = w
<1>1. /\ SubSeq(s, 1, 4) \in Seq(Byte) /\ Len(SubSeq(s, 1, 4)) = 4
      /\ \A i \in 1 .. 4 : SubSeq(s, 1, 4)[i] = s[i]
  <2>1. 0 + 4 <= Len(s) /\ 0 + 1 = 1 /\ 0 + 4 = 4 /\ 0 \in Nat /\ 4 \in Nat /\ \A i \in 1 .. 4 : 0 + i = i
    OBVIOUS
  <2> HIDE <2>1
  <2>2. /\ SubSeq(s, 0 + 1, 0 + 4) \in Seq(Byte) /\ Len(SubSeq(s, 0 + 1, 0 + 4)) = 4
        /\ \A i \in 1 .. 4 : SubSeq(s, 0 + 1, 0 + 4)[i] = s[0 + i]
    BY <2>1, Part
  <2> QED BY <2>1, <2>2
<1>2. w \in Seq(Byte) /\ Len(w) = 4
  BY WordsAre
<1> DEFINE v == SubSeq(s, 1, 4)
<1> HIDE DEF v
<1>3. At(w, s, 1) <=> \A k \in 1 .. 4 : v[k] = w[k]
  <2>1. \A k \in 1 .. 4 : 1 + k - 1 = k
    OBVIOUS
  <2>2. \A k \in 1 .. 4 : s[1 + k - 1] = v[k]
    BY <1>1, <2>1 DEF v
  <2> QED BY <2>2 DEF At
<1>4. (\A k \in 1 .. 4 : v[k] = w[k]) <=> v = w
  BY <1>1, <1>2, Same DEF v
<1> QED BY <1>3, <1>4 DEF v

\* Behind s comes what does not end such a word.
LEMMA NotAcross ==
  ASSUME NEW s \in Seq(Byte), NEW t \in Seq(Byte), NEW w, Len(t) >= 2,
         w[3] = w[4], t[1] # w[3], t[2] # w[3],
         NEW i \in 1 .. Len(s \o t) - 3, At(w, s \o t, i)
  PROVE  i \in 1 .. Len(s) - 3 \/ \E j \in 1 .. Len(t) - 3 : i = Len(s) + j
<1> DEFINE q == s \o t
<1>1. /\ Len(q) = Len(s) + Len(t) /\ Len(s) \in Nat /\ Len(t) \in Nat
      /\ \A j \in 1 .. Len(t) : q[Len(s) + j] = t[j]
  BY Joined
<1>2. q[Len(s) + 1] = t[1] /\ q[Len(s) + 2] = t[2]
  <2>1. 1 \in 1 .. Len(t) /\ 2 \in 1 .. Len(t)
    BY <1>1
  <2> QED BY <1>1, <2>1
<1>3. q[i + 2] = w[3] /\ q[i + 3] = w[4]
  <2>1. 3 \in 1 .. 4 /\ 4 \in 1 .. 4 /\ i + 3 - 1 = i + 2 /\ i + 4 - 1 = i + 3
    OBVIOUS
  <2>2. q[i + 3 - 1] = w[3] /\ q[i + 4 - 1] = w[4]
    BY <2>1 DEF At
  <2> QED BY <2>1, <2>2
<1> HIDE DEF q
<1>4. i \notin {Len(s) - 2, Len(s) - 1, Len(s)}
  <2>1. i + 2 # Len(s) + 1 /\ i + 2 # Len(s) + 2 /\ i + 3 # Len(s) + 1
    BY <1>2, <1>3
  <2> QED BY <1>1, <2>1
<1>5. i \in 1 .. Len(q) - 3
  BY DEF q
<1>6. CASE i <= Len(s) - 3
  BY <1>1, <1>5, <1>6
<1>7. CASE i > Len(s)
  <2>1. i - Len(s) \in 1 .. Len(t) - 3 /\ i = Len(s) + (i - Len(s))
    BY <1>1, <1>5, <1>7
  <2> QED BY <2>1
<1> QED BY <1>1, <1>4, <1>5, <1>6, <1>7

\* A word whose last two bytes are the same, and which t does not begin with, comes up
\* in s and t together only if it is in one of them.
LEMMA OccursNotJoined ==
  ASSUME NEW s \in Seq(Byte), NEW t \in Seq(Byte), NEW w, Len(t) >= 2,
         w[3] = w[4], t[1] # w[3], t[2] # w[3],
         ~ Occurs(w, s), ~ Occurs(w, t)
  PROVE  ~ Occurs(w, s \o t)
<1> SUFFICES ASSUME NEW i \in 1 .. Len(s \o t) - 3, At(w, s \o t, i) PROVE FALSE
  BY DEF Occurs
<1>1. CASE i \in 1 .. Len(s) - 3
  BY <1>1, AtJoined DEF Occurs
<1>2. CASE \E j \in 1 .. Len(t) - 3 : i = Len(s) + j
  <2>1. PICK j \in 1 .. Len(t) - 3 : i = Len(s) + j
    BY <1>2
  <2>2. At(w, t, j)
    BY <2>1, AtBehind
  <2> QED BY <2>2 DEF Occurs
<1> QED BY <1>1, <1>2, NotAcross

\* Taking bytes makes no word.
LEMMA OccursNotDropped ==
  ASSUME NEW s \in Seq(Byte), NEW n \in Nat, n <= Len(s), NEW w, ~ Occurs(w, s)
  PROVE  ~ Occurs(w, Drop(s, n))
<1> SUFFICES ASSUME NEW i \in 1 .. Len(Drop(s, n)) - 3, At(w, Drop(s, n), i) PROVE FALSE
  BY DEF Occurs
<1>1. Len(Drop(s, n)) = Len(s) - n /\ Len(s) \in Nat
  BY DropIs, LenProperties
<1>2. i \in 1 .. Len(s) - n - 3 /\ n + i \in 1 .. Len(s) - 3
  BY <1>1
<1>3. At(w, s, n + i)
  BY <1>2, AtDropped
<1> QED BY <1>2, <1>3 DEF Occurs

\* No word occurs in another.
LEMMA WordsApart ==
  ASSUME NEW v \in Words, NEW w \in Words, v # w
  PROVE  ~ Occurs(w, v)
<1> SUFFICES ASSUME NEW i \in 1 .. Len(v) - 3, At(w, v, i) PROVE FALSE
  BY DEF Occurs
<1>1. v \in Seq(Byte) /\ Len(v) = 4 /\ w \in Seq(Byte) /\ Len(w) = 4
  BY WordsAre
<1>2. i = 1
  BY <1>1
<1>3. \A k \in 1 .. 4 : v[k] = w[k]
  BY <1>2 DEF At
<1> QED BY <1>1, <1>3, Same

----------------------------------------------------------------------------
(***************************************************************************)
(* Requests.                                                                *)
(***************************************************************************)
LEMMA NoRequests ==
  OnlyRequests(<< >>)
<1>1. Len(<< >>) = 0 /\ 0 % 4 = 0 /\ 1 .. 0 = {}
  OBVIOUS
<1> QED BY <1>1 DEF OnlyRequests

\* One request more.
LEMMA RequestsJoined ==
  ASSUME NEW s \in Seq(Byte), OnlyRequests(s)
  PROVE  OnlyRequests(s \o GET_PROG_INFO)
<1> DEFINE g == GET_PROG_INFO
           q == s \o g
<1>1. g \in Seq(Byte) /\ Len(g) = 4
  BY WordsAre DEF Words
<1>2. /\ Len(q) = Len(s) + 4 /\ Len(s) \in Nat
      /\ \A i \in 1 .. Len(s) : q[i] = s[i]
      /\ \A i \in 1 .. 4 : q[Len(s) + i] = g[i]
  <2> HIDE DEF g
  <2> QED BY <1>1, Joined
<1>3. Len(s) % 4 = 0 /\ \A i \in 1 .. Len(s) : s[i] = g[((i - 1) % 4) + 1]
  BY DEF OnlyRequests
<1> HIDE DEF g, q
<1>4. Len(q) % 4 = 0
  BY <1>2, <1>3
<1>5. ASSUME NEW i \in 1 .. Len(q) PROVE q[i] = g[((i - 1) % 4) + 1]
  <2>1. CASE i <= Len(s)
    BY <1>2, <1>3, <2>1
  <2>2. CASE i > Len(s)
    <3>1. PICK j \in 1 .. 4 : i = Len(s) + j
      <4>1. i - Len(s) \in 1 .. 4 /\ i = Len(s) + (i - Len(s))
        BY <1>2, <2>2
      <4> QED BY <4>1
    <3>2. ((i - 1) % 4) + 1 = j
      <4>1. PICK k \in Nat : Len(s) = 4 * k
        BY <1>2, <1>3
      <4>2. \A n \in 0 .. 3 : (4 * k + n) % 4 = n
        OBVIOUS
      <4>3. j - 1 \in 0 .. 3 /\ i - 1 = 4 * k + (j - 1)
        BY <3>1, <4>1
      <4> QED BY <4>2, <4>3
    <3> QED BY <1>2, <3>1, <3>2
  <2> QED BY <1>2, <2>1, <2>2
<1> QED BY <1>4, <1>5 DEF OnlyRequests, q, g

\* Requests are taken whole.
LEMMA RequestsDropped ==
  ASSUME NEW s \in Seq(Byte), OnlyRequests(s), Len(s) >= 4
  PROVE  SubSeq(s, 1, 4) = GET_PROG_INFO /\ OnlyRequests(Drop(s, 4))
<1> DEFINE g == GET_PROG_INFO
           d == Drop(s, 4)
<1>1. Len(s) \in Nat /\ Len(s) % 4 = 0 /\ \A i \in 1 .. Len(s) : s[i] = g[((i - 1) % 4) + 1]
  BY LenProperties DEF OnlyRequests
<1>2. Len(d) = Len(s) - 4 /\ \A i \in 1 .. Len(s) - 4 : d[i] = s[4 + i]
  BY DropIs
<1> HIDE DEF g, d
<1>3. \A i \in 1 .. Len(d) : d[i] = g[((i - 1) % 4) + 1]
  <2> TAKE i \in 1 .. Len(d)
  <2>1. 4 + i \in 1 .. Len(s) /\ ((4 + i - 1) % 4) + 1 = ((i - 1) % 4) + 1
    BY <1>1, <1>2
  <2>2. d[i] = s[4 + i] /\ s[4 + i] = g[((4 + i - 1) % 4) + 1]
    BY <1>1, <1>2, <2>1
  <2> QED BY <2>1, <2>2
<1>4. Len(d) % 4 = 0
  BY <1>1, <1>2
<1>5. OnlyRequests(d)
  BY <1>3, <1>4 DEF OnlyRequests, g
<1>6. At(GET_PROG_INFO, s, 1)
  <2>1. \A k \in 1 .. 4 : 1 + k - 1 = k /\ k \in 1 .. Len(s) /\ ((k - 1) % 4) + 1 = k
    BY <1>1, SMTT(30)
  <2>2. \A k \in 1 .. 4 : s[1 + k - 1] = g[k]
    BY <1>1, <2>1
  <2> QED BY <2>2 DEF At, g
<1>7. SubSeq(s, 1, 4) = GET_PROG_INFO
  <2>1. GET_PROG_INFO \in Words
    BY DEF Words
  <2> QED BY <1>6, <2>1, AtFirst
<1> QED BY <1>5, <1>7 DEF d

\* OldRequest, whatever the loader does.
Old(s, waits) ==
  \E i \in 1 .. Len(s) - 3 :
    At(GET_PROG_INFO, s, i) /\ ~ (waits /\ OnlyRequests(Drop(s, i + 3)))

\* OldRequest with the state of the loader as a parameter.
LEMMA OldIs ==
  ASSUME NEW s \in Seq(Byte)
  PROVE  OldRequest(s) <=> Old(s, pi = "asking" /\ toPi = << >>)
<1>1. \A i \in 1 .. Len(s) - 3 : SubSeq(s, i + 4, Len(s)) = Drop(s, i + 3)
  <2>1. \A i \in 1 .. Len(s) - 3 : (i + 3) + 1 = i + 4
    BY LenProperties
  <2> QED BY <2>1 DEF Drop
<1> QED BY <1>1 DEF OldRequest, Old

\* Taking bytes makes no old request.
LEMMA NotOldDropped ==
  ASSUME NEW s \in Seq(Byte), NEW n \in Nat, n <= Len(s), NEW waits, ~ Old(s, waits)
  PROVE  ~ Old(Drop(s, n), waits)
<1> SUFFICES ASSUME NEW i \in 1 .. Len(Drop(s, n)) - 3, At(GET_PROG_INFO, Drop(s, n), i),
                    ~ (waits /\ OnlyRequests(Drop(Drop(s, n), i + 3)))
             PROVE  FALSE
  BY DEF Old
<1>1. Len(Drop(s, n)) = Len(s) - n /\ Len(s) \in Nat
  BY DropIs, LenProperties
<1>2. /\ i \in 1 .. Len(s) - n - 3 /\ n + i \in 1 .. Len(s) - 3
      /\ i + 3 \in Nat /\ n + (i + 3) <= Len(s) /\ n + (i + 3) = n + i + 3
  BY <1>1
<1>3. At(GET_PROG_INFO, s, n + i)
  BY <1>2, AtDropped
<1>4. PICK m \in Nat : m = i + 3
  BY <1>2
<1>5. Drop(Drop(s, n), m) = Drop(s, n + m)
  BY <1>2, <1>4, DropDropped
<1>6. Drop(Drop(s, n), i + 3) = Drop(s, n + i + 3)
  BY <1>2, <1>4, <1>5
<1> QED BY <1>2, <1>3, <1>6 DEF Old

\* Bytes that are in no request make no old request.
LEMMA NotOldBehind ==
  ASSUME NEW p \in Seq(Byte), NEW s \in Seq(Byte), NEW waits, ~ Old(s, waits),
         \A i \in 1 .. Len(p) : p[i] # 34
  PROVE  ~ Old(p \o s, waits)
<1> SUFFICES ASSUME NEW i \in 1 .. Len(p \o s) - 3, At(GET_PROG_INFO, p \o s, i),
                    ~ (waits /\ OnlyRequests(Drop(p \o s, i + 3)))
             PROVE  FALSE
  BY DEF Old
<1>1. /\ Len(p \o s) = Len(p) + Len(s) /\ Len(p) \in Nat /\ Len(s) \in Nat
      /\ \A j \in 1 .. Len(p) : (p \o s)[j] = p[j]
  BY Joined
<1>2. i > Len(p)
  <2>1. (p \o s)[i] = 34
    <3>1. 1 \in 1 .. 4 /\ i + 1 - 1 = i
      OBVIOUS
    <3>2. (p \o s)[i + 1 - 1] = GET_PROG_INFO[1]
      BY <3>1 DEF At
    <3>3. GET_PROG_INFO[1] = 34
      BY DEF GET_PROG_INFO
    <3> QED BY <3>1, <3>2, <3>3
  <2> QED BY <1>1, <2>1
<1>3. PICK j \in 1 .. Len(s) - 3 : i = Len(p) + j
  <2>1. i - Len(p) \in 1 .. Len(s) - 3 /\ i = Len(p) + (i - Len(p))
    BY <1>1, <1>2
  <2> QED BY <2>1
<1>4. At(GET_PROG_INFO, s, j)
  BY <1>3, AtBehind
<1>5. PICK m \in Nat : m = j + 3 /\ m <= Len(s) /\ i + 3 = Len(p) + m
  BY <1>1, <1>3
<1>6. Drop(p \o s, Len(p) + m) = Drop(s, m)
  BY <1>5, DropBehind
<1> QED BY <1>3, <1>4, <1>5, <1>6 DEF Old

\* A request of a loader that waits is not old.
LEMMA NotOldAsked ==
  ASSUME NEW s \in Seq(Byte), ~ Old(s, TRUE)
  PROVE  ~ Old(s \o GET_PROG_INFO, TRUE)
<1> DEFINE g == GET_PROG_INFO
           q == s \o g
<1>1. g \in Seq(Byte) /\ Len(g) = 4 /\ g = <<34, 34, 17, 17>>
  BY WordsAre DEF Words, GET_PROG_INFO
<1>2. /\ q \in Seq(Byte) /\ Len(q) = Len(s) + 4 /\ Len(s) \in Nat
      /\ \A i \in 1 .. 4 : q[Len(s) + i] = g[i]
  <2> HIDE DEF g
  <2> QED BY <1>1, Joined
<1> SUFFICES ASSUME NEW i \in 1 .. Len(q) - 3, At(g, q, i), ~ OnlyRequests(Drop(q, i + 3))
             PROVE  FALSE
  BY DEF Old
<1>3. i \in 1 .. Len(s) - 3 \/ \E j \in 1 .. Len(g) - 3 : i = Len(s) + j
  <2>1. Len(g) >= 2 /\ g[3] = g[4] /\ g[1] # g[3] /\ g[2] # g[3]
    BY <1>1
  <2> HIDE DEF g
  <2> QED BY <1>1, <2>1, NotAcross, ZenonT(30)
<1>4. CASE i \in 1 .. Len(s) - 3
  <2>1. At(g, s, i)
    <3> HIDE DEF g
    <3> QED BY <1>1, <1>4, AtJoined
  <2>2. OnlyRequests(Drop(s, i + 3))
    BY <1>4, <2>1 DEF Old
  <2>3. PICK m \in Nat : m = i + 3 /\ m <= Len(s)
    BY <1>2, <1>4
  <2>4. Drop(s, m) \in Seq(Byte) /\ Drop(q, m) = Drop(s, m) \o g
    <3> HIDE DEF g
    <3>1. Drop(s, m) \in Seq(Byte)
      BY <2>3, DropIs
    <3>2. Drop(s \o g, m) = Drop(s, m) \o g
      BY <1>1, <2>3, DropJoined
    <3> QED BY <3>1, <3>2
  <2>5. OnlyRequests(Drop(s, m) \o g)
    BY <2>2, <2>3, <2>4, RequestsJoined
  <2> QED BY <2>3, <2>4, <2>5
<1>5. CASE \E j \in 1 .. Len(g) - 3 : i = Len(s) + j
  <2>1. i + 3 = Len(q) /\ Len(q) \in Nat
    BY <1>1, <1>2, <1>5
  <2>2. Drop(q, Len(q)) \in Seq(Byte) /\ Len(Drop(q, Len(q))) = 0
    <3>1. Drop(q, Len(q)) \in Seq(Byte) /\ Len(Drop(q, Len(q))) = Len(q) - Len(q)
      <4> HIDE DEF q
      <4>1. PICK m \in Nat : m = Len(q) /\ m <= Len(q)
        BY <2>1
      <4> QED BY <1>2, <4>1, DropIs
    <3> QED BY <2>1, <3>1
  <2>3. Drop(q, Len(q)) = << >>
    BY <2>2, EmptySeq
  <2> QED BY <2>1, <2>3, NoRequests
<1> QED BY <1>3, <1>4, <1>5

\* The word in front, when it is a request, is one that is waited for.
LEMMA OldFirst ==
  ASSUME NEW s \in Seq(Byte), NEW waits, ~ Old(s, waits), Len(s) >= 4,
         SubSeq(s, 1, 4) = GET_PROG_INFO
  PROVE  waits /\ OnlyRequests(Drop(s, 4))
<1>1. At(GET_PROG_INFO, s, 1)
  <2>1. GET_PROG_INFO \in Words
    BY DEF Words
  <2> QED BY <2>1, AtFirst
<1>2. 1 \in 1 .. Len(s) - 3 /\ 1 + 3 = 4
  BY LenProperties
<1> QED BY <1>1, <1>2 DEF Old

\* To a loader that does not wait every request is old.
LEMMA OldNever ==
  ASSUME NEW s
  PROVE  /\ Old(s, FALSE) <=> Occurs(GET_PROG_INFO, s)
         /\ \A waits : Old(s, waits) => Occurs(GET_PROG_INFO, s)
BY DEF Old, Occurs

\* put32 and get32: a number of up to two bytes arrives as it was, a larger one as a
\* larger one.
LEMMA NumberIs ==
  ASSUME NEW n \in Nat, n <= MaxInt
  PROVE  /\ Number(n) \in [1 .. 4 -> Byte] /\ Number(n) \in Seq(Byte) /\ Len(Number(n)) = 4
         /\ Value(Number(n)) = IF n < 65536 THEN n ELSE 65536
<1>0. n \in Nat /\ n <= 2147483647
  BY SMT DEF MaxInt
<1>1. /\ n % 256 \in Byte /\ (n \div 256) % 256 \in Byte
      /\ (n \div 65536) % 256 \in Byte
  BY <1>0, SMT DEF Byte
<1>2. n \div 16777216 \in Byte
  BY <1>0, SMT DEF Byte
<1>3. PICK a, b, c, d \in Byte : /\ a = n % 256 /\ b = (n \div 256) % 256
                                 /\ c = (n \div 65536) % 256 /\ d = n \div 16777216
  BY <1>1, <1>2, SMT
<1>4. Number(n) = <<a, b, c, d>>
  BY <1>3, SMT DEF Number
<1>5. /\ <<a, b, c, d>> \in [1 .. 4 -> Byte] /\ <<a, b, c, d>> \in Seq(Byte)
      /\ Len(<<a, b, c, d>>) = 4
  BY SMT
<1>6. Value(<<a, b, c, d>>) = IF c = 0 /\ d = 0 THEN a + 256 * b ELSE 65536
  BY SMT DEF Value
<1>7. n < 65536 => c = 0 /\ d = 0
  BY <1>0, <1>3, SMT
<1>8. n < 65536 => n = a + 256 * b
  <2>1. ASSUME n < 65536 PROVE b = n \div 256
    BY <1>0, <1>3, <2>1, SMT
  <2>2. n = (n % 256) + 256 * (n \div 256)
    BY <1>0, SMT
  <2> QED BY <1>3, <2>1, <2>2, SMT
<1>9. n >= 65536 => ~ (c = 0 /\ d = 0)
  <2>1. n >= 16777216 => d # 0
    BY <1>0, <1>3, SMT
  <2>2. ASSUME n >= 65536, n < 16777216 PROVE c # 0
    <3>1. n \div 65536 \in 1 .. 255
      BY <1>0, <2>2, SMT
    <3> QED BY <1>3, <3>1, SMT
  <2> QED BY <1>0, <2>1, <2>2, SMT
<1>10. Value(Number(n)) = IF n < 65536 THEN n ELSE 65536
  BY <1>0, <1>4, <1>6, <1>7, <1>8, <1>9, SMT
<1> QED BY <1>4, <1>5, <1>10, SMT

\* The value of a word.
LEMMA ValueIs ==
  ASSUME NEW w \in [1 .. 4 -> Byte]
  PROVE  Value(w) \in Nat
<1>1. PICK a, b \in Byte : a = w[1] /\ b = w[2]
  OBVIOUS
<1>2. a + 256 * b \in Nat /\ 65536 \in Nat
  BY SMT DEF Byte
<1> QED BY <1>1, <1>2, SMT DEF Value

\* Four bytes are a word.
LEMMA FourBytes ==
  ASSUME NEW s \in Seq(Byte), Len(s) = 4
  PROVE  s \in [1 .. 4 -> Byte]
BY LenProperties

\* A word is four bytes.
LEMMA FourBytesSeq ==
  ASSUME NEW w \in [1 .. 4 -> Byte]
  PROVE  w \in Seq(Byte) /\ Len(w) = 4
<1>1. w \in Seq(Byte)
  BY SeqDef
<1> QED BY <1>1, LenProperties

\* What the loader prints when it starts.
LEMMA PrintedIs ==
  ASSUME NEW t \in Texts
  PROVE  /\ Printed(t) \in Seq(Byte) /\ Len(Printed(t)) >= 8
         /\ Printed(t)[1] = 238 /\ Printed(t)[2] = 238
         /\ ~ Occurs(GET_PROG_INFO, Printed(t)) /\ ~ Occurs(BOOT_SUCCESS, Printed(t))
<1>1. t \in Seq(Byte) /\ Len(t) <= MaxInt /\ Len(t) \in Nat
  BY TextsAssumption, LenProperties
<1> DEFINE n == Number(Len(t))
           p == PRINT_STRING
           h == p \o n
<1>2. n \in Seq(Byte) /\ Len(n) = 4 /\ p \in Seq(Byte) /\ Len(p) = 4
  BY <1>1, NumberIs, WordsAre DEF Words
<1>3. /\ p[1] = 238 /\ p[2] = 238 /\ 1 \in 1 .. 4 /\ 2 \in 1 .. 4
      /\ 1 \in 1 .. 8 /\ 2 \in 1 .. 8
  BY DEF PRINT_STRING
<1> HIDE DEF n, p
<1>4. h \in Seq(Byte) /\ Len(h) = 8 /\ h[1] = 238 /\ h[2] = 238
  <2>1. h \in Seq(Byte) /\ Len(h) = Len(p) + Len(n) /\ \A i \in 1 .. Len(p) : h[i] = p[i]
    BY <1>2, Joined
  <2> HIDE DEF h
  <2> QED BY <1>2, <1>3, <2>1
<1> HIDE DEF h
<1>5. h \o t \in Seq(Byte) /\ Len(h \o t) >= 8 /\ (h \o t)[1] = 238 /\ (h \o t)[2] = 238
  <2>1. /\ h \o t \in Seq(Byte) /\ Len(h \o t) = Len(h) + Len(t) /\ Len(t) \in Nat
        /\ \A i \in 1 .. Len(h) : (h \o t)[i] = h[i]
    <3>1. h \in Seq(Byte) /\ t \in Seq(Byte)
      BY <1>1, <1>4
    <3> QED BY <3>1, Joined
  <2> QED BY <1>3, <1>4, <2>1
<1>6. Printed(t) = h \o t
  BY DEF Printed, h, n, p
<1> QED BY <1>5, <1>6, TextsAssumption

\* What the loader says but for its requests.
Speech == {<< >>, GET_CODE, BOOT_SUCCESS, BOOT_ERROR} \cup {Printed(t) : t \in Texts}

\* Saying nothing changes nothing.
LEMMA NothingSaid ==
  ASSUME NEW s \in Seq(Byte)
  PROVE  s \o << >> = s /\ << >> \o s = s
BY EmptySeq, ConcatEmptySeq

\* No request comes with it.
LEMMA SpeechAsksNothing ==
  ASSUME NEW s \in Seq(Byte), ~ Occurs(GET_PROG_INFO, s), NEW t \in Speech
  PROVE  t \in Seq(Byte) /\ ~ Occurs(GET_PROG_INFO, s \o t)
<1> DEFINE g == GET_PROG_INFO
<1>1. CASE t = << >>
  <2>1. s \o << >> = s
    BY NothingSaid
  <2> QED BY <1>1, <2>1
<1>2. CASE t # << >>
  <2>1. /\ t \in Seq(Byte) /\ Len(t) >= 2 /\ ~ Occurs(g, t)
        /\ t[1] \in {102, 170, 204, 238} /\ t[2] \in {102, 170, 204, 238}
    <3>1. CASE t \in {GET_CODE, BOOT_SUCCESS, BOOT_ERROR}
      <4>1. t \in Words /\ g \in Words /\ t # g
        BY <3>1 DEF Words, GET_CODE, BOOT_SUCCESS, BOOT_ERROR, GET_PROG_INFO
      <4>2. t \in Seq(Byte) /\ Len(t) = 4 /\ ~ Occurs(g, t)
        BY <4>1, WordsAre, WordsApart
      <4>3. t[1] \in {102, 170, 204, 238} /\ t[2] \in {102, 170, 204, 238}
        BY <3>1 DEF GET_CODE, BOOT_SUCCESS, BOOT_ERROR
      <4> QED BY <4>2, <4>3
    <3>2. CASE t \in {Printed(x) : x \in Texts}
      <4>1. PICK x \in Texts : t = Printed(x)
        BY <3>2
      <4>2. /\ Printed(x) \in Seq(Byte) /\ Len(Printed(x)) >= 8
            /\ Printed(x)[1] = 238 /\ Printed(x)[2] = 238 /\ ~ Occurs(g, Printed(x))
        BY PrintedIs
      <4>3. Len(Printed(x)) >= 2
        BY <4>2, LenProperties
      <4> QED BY <4>1, <4>2, <4>3
    <3> QED BY <1>2, <3>1, <3>2 DEF Speech
  <2>2. g[3] = 17 /\ g[4] = 17
    BY DEF GET_PROG_INFO
  <2> HIDE DEF g
  <2>3. g[3] = g[4] /\ t[1] # g[3] /\ t[2] # g[3] /\ ~ Occurs(g, s)
    BY <2>1, <2>2 DEF g
  <2>4. ~ Occurs(g, s \o t)
    BY <2>1, <2>3, OccursNotJoined
  <2> QED BY <2>1, <2>4 DEF g
<1> QED BY <1>1, <1>2

\* Follows, whatever was said.
Behind(s, n, w) == OnlyRequests(SubSeq(s, 1, n)) /\ SubSeq(s, n + 1, n + 4) = w

\* A word behind n bytes of requests, byte for byte.
LEMMA BehindIs ==
  ASSUME NEW s \in Seq(Byte), NEW n \in Nat, n + 4 <= Len(s), NEW w \in Words
  PROVE  Behind(s, n, w) <=> /\ n % 4 = 0
                             /\ \A i \in 1 .. n : s[i] = GET_PROG_INFO[((i - 1) % 4) + 1]
                             /\ \A k \in 1 .. 4 : s[n + k] = w[k]
<1> DEFINE p == SubSeq(s, 1, n)
           v == SubSeq(s, n + 1, n + 4)
<1>0. Len(s) \in Nat
  BY LenProperties
<1>1. p \in Seq(Byte) /\ Len(p) = n /\ \A i \in 1 .. n : p[i] = s[i]
  <2>1. 0 + n <= Len(s) /\ 0 + 1 = 1 /\ 0 + n = n /\ \A i \in 1 .. n : 0 + i = i
    BY <1>0
  <2>2. /\ SubSeq(s, 0 + 1, 0 + n) \in Seq(Byte) /\ Len(SubSeq(s, 0 + 1, 0 + n)) = n
        /\ \A i \in 1 .. n : SubSeq(s, 0 + 1, 0 + n)[i] = s[0 + i]
    BY <2>1, Part
  <2> QED BY <2>1, <2>2
<1>2. v \in Seq(Byte) /\ Len(v) = 4 /\ \A k \in 1 .. 4 : v[k] = s[n + k]
  BY Part
<1>3. w \in Seq(Byte) /\ Len(w) = 4
  BY WordsAre
<1> HIDE DEF p, v
<1>4. v = w <=> \A k \in 1 .. 4 : v[k] = w[k]
  BY <1>2, <1>3, Same
<1>5. OnlyRequests(p) <=> n % 4 = 0 /\ \A i \in 1 .. n : s[i] = GET_PROG_INFO[((i - 1) % 4) + 1]
  BY <1>1 DEF OnlyRequests
<1> QED BY <1>2, <1>4, <1>5 DEF Behind, p, v

\* It stays there when more is said.
LEMMA BehindJoined ==
  ASSUME NEW s \in Seq(Byte), NEW t \in Seq(Byte), NEW n \in Nat, n + 4 <= Len(s),
         NEW w \in Words, Behind(s, n, w)
  PROVE  n + 4 <= Len(s \o t) /\ Behind(s \o t, n, w)
<1> DEFINE q == s \o t
<1>1. /\ q \in Seq(Byte) /\ Len(q) = Len(s) + Len(t) /\ Len(s) \in Nat /\ Len(t) \in Nat
      /\ \A i \in 1 .. Len(s) : q[i] = s[i]
  BY Joined
<1>2. /\ n % 4 = 0
      /\ \A i \in 1 .. n : s[i] = GET_PROG_INFO[((i - 1) % 4) + 1]
      /\ \A k \in 1 .. 4 : s[n + k] = w[k]
  BY BehindIs
<1> HIDE DEF q
<1>3. n + 4 <= Len(q)
  BY <1>1
<1>4. \A i \in 1 .. n : q[i] = GET_PROG_INFO[((i - 1) % 4) + 1]
  <2> TAKE i \in 1 .. n
  <2>1. i \in 1 .. Len(s)
    BY <1>1
  <2> QED BY <1>1, <1>2, <2>1
<1>5. \A k \in 1 .. 4 : q[n + k] = w[k]
  <2> TAKE k \in 1 .. 4
  <2>1. n + k \in 1 .. Len(s)
    BY <1>1
  <2> QED BY <1>1, <1>2, <2>1
<1>6. Behind(q, n, w)
  BY <1>1, <1>2, <1>3, <1>4, <1>5, BehindIs
<1> QED BY <1>3, <1>6 DEF q

\* A word said behind requests is behind all of them.
LEMMA BehindLast ==
  ASSUME NEW s \in Seq(Byte), OnlyRequests(s), NEW w \in Words
  PROVE  /\ Len(s) \in Nat /\ Len(s \o w) = Len(s) + 4
         /\ Behind(s \o w, Len(s), w)
<1> DEFINE q == s \o w
<1>1. w \in Seq(Byte) /\ Len(w) = 4
  BY WordsAre
<1>2. /\ q \in Seq(Byte) /\ Len(q) = Len(s) + 4 /\ Len(s) \in Nat
      /\ \A i \in 1 .. Len(s) : q[i] = s[i]
      /\ \A k \in 1 .. 4 : q[Len(s) + k] = w[k]
  <2>1. /\ q \in Seq(Byte) /\ Len(q) = Len(s) + Len(w) /\ Len(s) \in Nat
        /\ \A i \in 1 .. Len(s) : q[i] = s[i]
        /\ \A k \in 1 .. Len(w) : q[Len(s) + k] = w[k]
    BY <1>1, Joined
  <2> HIDE DEF q
  <2> QED BY <1>1, <2>1
<1>3. Len(s) % 4 = 0 /\ \A i \in 1 .. Len(s) : s[i] = GET_PROG_INFO[((i - 1) % 4) + 1]
  BY DEF OnlyRequests
<1> HIDE DEF q
<1>4. \A i \in 1 .. Len(s) : q[i] = GET_PROG_INFO[((i - 1) % 4) + 1]
  BY <1>2, <1>3
<1>5. Len(s) + 4 <= Len(q)
  BY <1>2
<1>6. Behind(q, Len(s), w)
  BY <1>2, <1>3, <1>4, <1>5, BehindIs
<1> QED BY <1>2, <1>6 DEF q

\* What a reader of words meets.
LEMMA BehindFirst ==
  ASSUME NEW s \in Seq(Byte), NEW n \in Nat, n + 4 <= Len(s), NEW w \in Words, Behind(s, n, w)
  PROVE  /\ n = 0 => SubSeq(s, 1, 4) = w
         /\ n > 0 => /\ SubSeq(s, 1, 4) = GET_PROG_INFO
                     /\ n - 4 \in Nat /\ n - 4 + 4 <= Len(Drop(s, 4))
                     /\ Behind(Drop(s, 4), n - 4, w)
<1> DEFINE g == GET_PROG_INFO
           d == Drop(s, 4)
<1>1. /\ n % 4 = 0
      /\ \A i \in 1 .. n : s[i] = g[((i - 1) % 4) + 1]
      /\ \A k \in 1 .. 4 : s[n + k] = w[k]
  BY BehindIs
<1>2. Len(s) \in Nat /\ Len(s) >= 4
  BY LenProperties
<1>3. d \in Seq(Byte) /\ Len(d) = Len(s) - 4 /\ \A i \in 1 .. Len(s) - 4 : d[i] = s[4 + i]
  BY <1>2, DropIs
<1>4. g \in Words
  BY DEF Words
<1>5. \A k \in 1 .. 4 : 1 + k - 1 = k
  OBVIOUS
<1> HIDE DEF g, d
<1>6. ASSUME n = 0 PROVE SubSeq(s, 1, 4) = w
  <2>1. \A k \in 1 .. 4 : s[1 + k - 1] = w[k]
    BY <1>1, <1>5, <1>6
  <2>2. At(w, s, 1)
    BY <2>1 DEF At
  <2> QED BY <1>2, <2>2, AtFirst
<1>7. ASSUME n > 0
      PROVE  /\ SubSeq(s, 1, 4) = g
             /\ n - 4 \in Nat /\ n - 4 + 4 <= Len(d) /\ Behind(d, n - 4, w)
  <2>1. n >= 4
    <3>1. n % 4 = 0
      BY <1>1
    <3> QED BY <1>7, <3>1
  <2>2. PICK m \in Nat : n = m + 4 /\ m % 4 = 0
    <3>1. n - 4 \in Nat /\ (n - 4) % 4 = 0 /\ n = (n - 4) + 4
      BY <1>1, <2>1
    <3> QED BY <3>1
  <2>3. \A k \in 1 .. 4 : s[1 + k - 1] = g[k]
    <3> TAKE k \in 1 .. 4
    <3>1. k \in 1 .. n /\ ((k - 1) % 4) + 1 = k
      BY <2>1
    <3> QED BY <1>1, <1>5, <3>1
  <2>4. SubSeq(s, 1, 4) = g
    <3>1. At(g, s, 1)
      BY <2>3 DEF At
    <3> QED BY <1>2, <1>4, <3>1, AtFirst
  <2>5. m + 4 <= Len(d)
    BY <1>2, <1>3, <2>2
  <2>6. \A i \in 1 .. m : d[i] = g[((i - 1) % 4) + 1]
    <3> TAKE i \in 1 .. m
    <3>1. 4 + i \in 1 .. n /\ i \in 1 .. Len(s) - 4 /\ ((4 + i - 1) % 4) + 1 = ((i - 1) % 4) + 1
      BY <1>2, <2>2
    <3>2. d[i] = s[4 + i] /\ s[4 + i] = g[((4 + i - 1) % 4) + 1]
      BY <1>1, <1>3, <3>1
    <3> QED BY <3>1, <3>2
  <2>7. \A k \in 1 .. 4 : d[m + k] = w[k]
    <3> TAKE k \in 1 .. 4
    <3>1. m + k \in 1 .. Len(s) - 4 /\ 4 + (m + k) = n + k
      BY <1>2, <2>2
    <3>2. d[m + k] = s[4 + (m + k)]
      BY <1>3, <3>1
    <3> QED BY <1>1, <3>1, <3>2
  <2>8. Behind(d, m, w)
    BY <1>3, <2>2, <2>5, <2>6, <2>7, BehindIs DEF g
  <2>9. n - 4 = m
    BY <2>2
  <2> QED BY <2>4, <2>5, <2>8, <2>9
<1> QED BY <1>6, <1>7 DEF g, d

----------------------------------------------------------------------------
(***************************************************************************)
(* The answer of boot, word by word.                                        *)
(***************************************************************************)
LEMMA PartsJoined ==
  ASSUME NEW s \in Seq(Byte), NEW l \in Nat, NEW m \in Nat, NEW n \in Nat, l + m + n <= Len(s)
  PROVE  SubSeq(s, l + 1, l + m) \o SubSeq(s, l + m + 1, l + m + n) = SubSeq(s, l + 1, l + m + n)
<1>1. PICK i, j, k \in Nat : i = l + 1 /\ j = l + m /\ k = l + m + n
  OBVIOUS
<1>2. i \in 1 .. Len(s) + 1 /\ j \in i - 1 .. Len(s) /\ k \in j .. Len(s)
  BY <1>1, LenProperties
<1>3. SubSeq(s, i, j) \o SubSeq(s, j + 1, k) = SubSeq(s, i, k)
  BY <1>2, ConcatAdjacentSubSeq
<1> QED BY <1>1, <1>3

\* A part of a part is a part.
LEMMA PartOfPart ==
  ASSUME NEW s \in Seq(Byte), NEW l \in Nat, NEW m \in Nat, l + m <= Len(s),
         NEW j \in Nat, NEW n \in Nat, j + n <= m
  PROVE  SubSeq(SubSeq(s, l + 1, l + m), j + 1, j + n) = SubSeq(s, l + j + 1, l + j + n)
<1> DEFINE p == SubSeq(s, l + 1, l + m)
           r == SubSeq(p, j + 1, j + n)
           q == SubSeq(s, l + j + 1, l + j + n)
<1>0. PICK x \in Nat : x = l + j
  OBVIOUS
<1>1. p \in Seq(Byte) /\ Len(p) = m /\ \A i \in 1 .. m : p[i] = s[l + i]
  BY Part
<1> HIDE DEF p
<1>2. r \in Seq(Byte) /\ Len(r) = n /\ \A i \in 1 .. n : r[i] = p[j + i]
  BY <1>1, Part
<1>3. q \in Seq(Byte) /\ Len(q) = n /\ \A i \in 1 .. n : q[i] = s[x + i]
  <2>1. x + n <= Len(s)
    BY <1>0, LenProperties
  <2>2. /\ SubSeq(s, x + 1, x + n) \in Seq(Byte) /\ Len(SubSeq(s, x + 1, x + n)) = n
        /\ \A i \in 1 .. n : SubSeq(s, x + 1, x + n)[i] = s[x + i]
    BY <1>0, <2>1, Part
  <2> QED BY <1>0, <2>2
<1> HIDE DEF r, q
<1>4. ASSUME NEW i \in 1 .. n PROVE r[i] = q[i]
  <2>1. j + i \in 1 .. m /\ l + (j + i) = x + i
    BY <1>0
  <2>2. r[i] = p[j + i] /\ p[j + i] = s[l + (j + i)] /\ q[i] = s[x + i]
    BY <1>1, <1>2, <1>3, <2>1
  <2> QED BY <2>1, <2>2
<1>5. r = q
  BY <1>2, <1>3, <1>4, Same
<1> QED BY <1>5 DEF r, q, p

\* Two sequences put together come apart again.
LEMMA FirstPart ==
  ASSUME NEW s \in Seq(Byte), NEW t \in Seq(Byte)
  PROVE  SubSeq(s \o t, 1, Len(s)) = s /\ SubSeq(s \o t, Len(s) + 1, Len(s) + Len(t)) = t
<1> DEFINE q == s \o t
           a == SubSeq(q, 1, Len(s))
           b == SubSeq(q, Len(s) + 1, Len(s) + Len(t))
<1>1. /\ q \in Seq(Byte) /\ Len(q) = Len(s) + Len(t) /\ Len(s) \in Nat /\ Len(t) \in Nat
      /\ \A i \in 1 .. Len(s) : q[i] = s[i]
      /\ \A i \in 1 .. Len(t) : q[Len(s) + i] = t[i]
  BY Joined
<1> HIDE DEF q
<1>2. a \in Seq(Byte) /\ Len(a) = Len(s) /\ \A i \in 1 .. Len(s) : a[i] = q[i]
  <2>1. 0 + Len(s) <= Len(q) /\ 0 + 1 = 1 /\ 0 + Len(s) = Len(s) /\ \A i \in 1 .. Len(s) : 0 + i = i
    BY <1>1
  <2>2. /\ SubSeq(q, 0 + 1, 0 + Len(s)) \in Seq(Byte) /\ Len(SubSeq(q, 0 + 1, 0 + Len(s))) = Len(s)
        /\ \A i \in 1 .. Len(s) : SubSeq(q, 0 + 1, 0 + Len(s))[i] = q[0 + i]
    BY <1>1, <2>1, Part
  <2> QED BY <2>1, <2>2
<1>3. b \in Seq(Byte) /\ Len(b) = Len(t) /\ \A i \in 1 .. Len(t) : b[i] = q[Len(s) + i]
  BY <1>1, Part
<1> HIDE DEF a, b
<1>4. a = s
  BY <1>1, <1>2, Same
<1>5. b = t
  BY <1>1, <1>3, Same
<1> QED BY <1>4, <1>5 DEF a, b, q

\* Answer, whatever the program.
Told(n, c) == PUT_PROG_INFO \o ARMBASE \o Number(n) \o c

\* The answer is four words.
LEMMA ToldWords ==
  ASSUME NEW n \in Nat, n <= MaxInt, NEW c \in [1 .. 4 -> Byte]
  PROVE  /\ Told(n, c) \in Seq(Byte) /\ Len(Told(n, c)) = 16
         /\ SubSeq(Told(n, c), 1, 4) = PUT_PROG_INFO /\ SubSeq(Told(n, c), 5, 8) = ARMBASE
         /\ SubSeq(Told(n, c), 9, 12) = Number(n) /\ SubSeq(Told(n, c), 13, 16) = c
<1> DEFINE p == PUT_PROG_INFO
           a == ARMBASE
           w == Number(n)
           s2 == p \o a
           s3 == s2 \o w
           s4 == s3 \o c
<1>1. /\ p \in Seq(Byte) /\ Len(p) = 4 /\ a \in Seq(Byte) /\ Len(a) = 4
      /\ w \in Seq(Byte) /\ Len(w) = 4 /\ c \in Seq(Byte) /\ Len(c) = 4
  BY WordsAre, NumberIs, FourBytesSeq DEF Words
<1> HIDE DEF p, a, w
<1>2. /\ s2 \in Seq(Byte) /\ Len(s2) = 8
      /\ SubSeq(s2, 1, 4) = p /\ SubSeq(s2, 5, 8) = a
  <2>1. s2 \in Seq(Byte) /\ Len(s2) = Len(p) + Len(a)
    BY <1>1, Joined
  <2>2. SubSeq(s2, 1, Len(p)) = p /\ SubSeq(s2, Len(p) + 1, Len(p) + Len(a)) = a
    BY <1>1, FirstPart
  <2> QED BY <1>1, <2>1, <2>2
<1> HIDE DEF s2
<1>3. /\ s3 \in Seq(Byte) /\ Len(s3) = 12
      /\ SubSeq(s3, 1, 8) = s2 /\ SubSeq(s3, 9, 12) = w
  <2>1. s3 \in Seq(Byte) /\ Len(s3) = Len(s2) + Len(w)
    BY <1>1, <1>2, Joined
  <2>2. SubSeq(s3, 1, Len(s2)) = s2 /\ SubSeq(s3, Len(s2) + 1, Len(s2) + Len(w)) = w
    BY <1>1, <1>2, FirstPart
  <2>3. 8 + 4 = 12 /\ 8 + 1 = 9
    OBVIOUS
  <2> HIDE DEF s3
  <2> QED BY <1>1, <1>2, <2>1, <2>2, <2>3
<1> HIDE DEF s3
<1>4. /\ s4 \in Seq(Byte) /\ Len(s4) = 16
      /\ SubSeq(s4, 1, 12) = s3 /\ SubSeq(s4, 13, 16) = c
  <2>1. s4 \in Seq(Byte) /\ Len(s4) = Len(s3) + Len(c)
    BY <1>1, <1>3, Joined
  <2>2. SubSeq(s4, 1, Len(s3)) = s3 /\ SubSeq(s4, Len(s3) + 1, Len(s3) + Len(c)) = c
    BY <1>1, <1>3, FirstPart
  <2>3. 12 + 4 = 16 /\ 12 + 1 = 13
    OBVIOUS
  <2> HIDE DEF s4
  <2> QED BY <1>1, <1>3, <2>1, <2>2, <2>3
<1> HIDE DEF s4
<1>5. ASSUME NEW s \in Seq(Byte), NEW m \in 0 .. 16, m <= Len(s), NEW j \in 0 .. 16, NEW k \in 0 .. 16, j + k <= m
      PROVE  SubSeq(SubSeq(s, 1, m), j + 1, j + k) = SubSeq(s, j + 1, j + k)
  <2>1. SubSeq(SubSeq(s, 0 + 1, 0 + m), j + 1, j + k) = SubSeq(s, 0 + j + 1, 0 + j + k)
    <3>1. 0 + m <= Len(s)
      BY <1>5
    <3> QED BY <1>5, <3>1, PartOfPart
  <2>2. 0 + m = m /\ 0 + j + 1 = j + 1 /\ 0 + j + k = j + k /\ 0 + 1 = 1
    OBVIOUS
  <2> QED BY <2>1, <2>2
<1>6. SubSeq(s3, 0 + 1, 0 + 4) = p /\ SubSeq(s3, 4 + 1, 4 + 4) = a
  <2>1. 8 <= Len(s3) /\ 0 + 4 <= 8 /\ 4 + 4 <= 8 /\ {0, 4, 8} \subseteq 0 .. 16
    BY <1>3
  <2>2. SubSeq(SubSeq(s3, 1, 8), 0 + 1, 0 + 4) = SubSeq(s3, 0 + 1, 0 + 4)
    BY <1>3, <1>5, <2>1
  <2>3. SubSeq(SubSeq(s3, 1, 8), 4 + 1, 4 + 4) = SubSeq(s3, 4 + 1, 4 + 4)
    BY <1>3, <1>5, <2>1
  <2>4. SubSeq(s2, 0 + 1, 0 + 4) = p /\ SubSeq(s2, 4 + 1, 4 + 4) = a
    BY <1>2
  <2> QED BY <1>3, <2>2, <2>3, <2>4
<1>7. SubSeq(s4, 1, 4) = p /\ SubSeq(s4, 5, 8) = a /\ SubSeq(s4, 9, 12) = w
  <2>1. /\ 12 <= Len(s4) /\ 0 + 4 <= 12 /\ 4 + 4 <= 12 /\ 8 + 4 <= 12
        /\ {0, 4, 8, 12} \subseteq 0 .. 16
    BY <1>4
  <2>2. SubSeq(s3, 0 + 1, 0 + 4) = SubSeq(s4, 0 + 1, 0 + 4)
    BY <1>4, <1>5, <2>1
  <2>3. SubSeq(s3, 4 + 1, 4 + 4) = SubSeq(s4, 4 + 1, 4 + 4)
    BY <1>4, <1>5, <2>1
  <2>4. SubSeq(s3, 8 + 1, 8 + 4) = SubSeq(s4, 8 + 1, 8 + 4)
    BY <1>4, <1>5, <2>1
  <2>5. SubSeq(s3, 8 + 1, 8 + 4) = w
    BY <1>3
  <2> QED BY <1>6, <2>2, <2>3, <2>4, <2>5
<1>8. Told(n, c) = s4
  BY DEF Told, s4, s3, s2, w, a, p
<1> QED BY <1>4, <1>7, <1>8 DEF p, a, w

\* Each word that boot sends makes one word more of the answer.
LEMMA ToldGrows ==
  ASSUME NEW n \in Nat, n <= MaxInt, NEW c \in [1 .. 4 -> Byte], NEW k \in 0 .. 3
  PROVE  LET a == Told(n, c)
             w == <<PUT_PROG_INFO, ARMBASE, Number(n), c>>[k + 1]
         IN  /\ w \in Seq(Byte)
             /\ SubSeq(a, 1, 4 * k) \o w = SubSeq(a, 1, 4 * (k + 1))
             /\ k > 0 => SubSeq(a, 5, 4 * k) \o w = SubSeq(a, 5, 4 * (k + 1))
<1> DEFINE a == Told(n, c)
           w == <<PUT_PROG_INFO, ARMBASE, Number(n), c>>[k + 1]
<1>1. /\ a \in Seq(Byte) /\ Len(a) = 16
      /\ SubSeq(a, 1, 4) = PUT_PROG_INFO /\ SubSeq(a, 5, 8) = ARMBASE
      /\ SubSeq(a, 9, 12) = Number(n) /\ SubSeq(a, 13, 16) = c
  BY ToldWords
<1> HIDE DEF a
<1>2. w = SubSeq(a, 4 * k + 1, 4 * k + 4)
  <2>1. CASE k = 0
    BY <1>1, <2>1
  <2>2. CASE k = 1
    BY <1>1, <2>2
  <2>3. CASE k = 2
    BY <1>1, <2>3
  <2>4. CASE k = 3
    BY <1>1, <2>4
  <2> QED BY <2>1, <2>2, <2>3, <2>4
<1> HIDE DEF w
<1>3. PICK m \in Nat : m = 4 * k /\ m + 4 = 4 * (k + 1) /\ m + 4 <= 16
  OBVIOUS
<1>4. w \in Seq(Byte)
  BY <1>1, <1>2, <1>3, Part
<1>5. SubSeq(a, 1, m) \o w = SubSeq(a, 1, m + 4)
  <2>1. SubSeq(a, 0 + 1, 0 + m) \o SubSeq(a, 0 + m + 1, 0 + m + 4) = SubSeq(a, 0 + 1, 0 + m + 4)
    BY <1>1, <1>3, PartsJoined, SMTT(30)
  <2>2. 0 + 1 = 1 /\ 0 + m = m /\ 0 + m + 1 = m + 1 /\ 0 + m + 4 = m + 4
    BY <1>3
  <2> QED BY <1>2, <1>3, <2>1, <2>2
<1>6. ASSUME k > 0 PROVE SubSeq(a, 5, m) \o w = SubSeq(a, 5, m + 4)
  <2>1. PICK j \in Nat : 4 + j = m
    <3>1. m - 4 \in Nat /\ 4 + (m - 4) = m
      BY <1>3, <1>6
    <3> QED BY <3>1
  <2>2. SubSeq(a, 4 + 1, 4 + j) \o SubSeq(a, 4 + j + 1, 4 + j + 4) = SubSeq(a, 4 + 1, 4 + j + 4)
    BY <1>1, <1>3, <2>1, PartsJoined, SMTT(30)
  <2>3. 4 + 1 = 5
    OBVIOUS
  <2> QED BY <1>2, <1>3, <2>1, <2>2, <2>3
<1> QED BY <1>3, <1>4, <1>5, <1>6 DEF a, w

\* What a part of the answer begins with, and how long it is.
LEMMA ToldPart ==
  ASSUME NEW n \in Nat, n <= MaxInt, NEW c \in [1 .. 4 -> Byte], NEW k \in 0 .. 4
  PROVE  LET a == Told(n, c)
         IN  /\ SubSeq(a, 1, 4 * k) \in Seq(Byte) /\ Len(SubSeq(a, 1, 4 * k)) = 4 * k
             /\ k > 0 => /\ SubSeq(SubSeq(a, 1, 4 * k), 1, 4) = PUT_PROG_INFO
                         /\ SubSeq(SubSeq(a, 1, 4 * k), 5, 4 * k) = SubSeq(a, 5, 4 * k)
                         /\ SubSeq(a, 5, 4 * k) \in Seq(Byte)
                         /\ Len(SubSeq(a, 5, 4 * k)) = 4 * k - 4
<1> DEFINE a == Told(n, c)
<1>1. /\ a \in Seq(Byte) /\ Len(a) = 16 /\ SubSeq(a, 1, 4) = PUT_PROG_INFO
  BY ToldWords
<1> HIDE DEF a
<1>2. PICK m \in Nat : m = 4 * k /\ m <= 16
  OBVIOUS
<1>3. 0 + 1 = 1 /\ 0 + m = m /\ 0 + 0 + 1 = 1 /\ 0 + 0 + 4 = 4 /\ 0 + 4 = 4 /\ 4 + 1 = 5
      /\ 0 + 4 + 1 = 5
  BY <1>2
<1>4. SubSeq(a, 1, m) \in Seq(Byte) /\ Len(SubSeq(a, 1, m)) = m
  <2>1. SubSeq(a, 0 + 1, 0 + m) \in Seq(Byte) /\ Len(SubSeq(a, 0 + 1, 0 + m)) = m
    <3>1. 0 + m <= Len(a) /\ 0 \in Nat
      BY <1>1, <1>2
    <3> QED BY <1>1, <3>1, Part
  <2> QED BY <1>3, <2>1
<1>5. ASSUME k > 0
      PROVE  /\ SubSeq(SubSeq(a, 1, m), 1, 4) = PUT_PROG_INFO
             /\ SubSeq(SubSeq(a, 1, m), 5, m) = SubSeq(a, 5, m)
             /\ SubSeq(a, 5, m) \in Seq(Byte) /\ Len(SubSeq(a, 5, m)) = m - 4
  <2>1. PICK j \in Nat : 4 + j = m /\ j = m - 4 /\ 0 + 4 + j = m
    <3>1. m - 4 \in Nat /\ 4 + (m - 4) = m /\ 0 + 4 + (m - 4) = m
      BY <1>2, <1>5
    <3> QED BY <3>1
  <2>2. SubSeq(SubSeq(a, 0 + 1, 0 + m), 0 + 1, 0 + 4) = SubSeq(a, 0 + 0 + 1, 0 + 0 + 4)
    <3>1. 0 + m <= Len(a) /\ 0 + 4 <= m
      BY <1>1, <1>2, <2>1
    <3> QED BY <1>1, <3>1, PartOfPart
  <2>3. SubSeq(SubSeq(a, 0 + 1, 0 + m), 4 + 1, 4 + j) = SubSeq(a, 0 + 4 + 1, 0 + 4 + j)
    <3>1. 0 + m <= Len(a) /\ 4 + j <= m
      BY <1>1, <1>2, <2>1
    <3> QED BY <1>1, <3>1, PartOfPart
  <2>4. SubSeq(a, 4 + 1, 4 + j) \in Seq(Byte) /\ Len(SubSeq(a, 4 + 1, 4 + j)) = j
    <3>1. 4 + j <= Len(a) /\ 4 \in Nat
      BY <1>1, <1>2, <2>1
    <3> QED BY <1>1, <3>1, Part
  <2> QED BY <1>1, <1>3, <2>1, <2>2, <2>3, <2>4
<1> QED BY <1>2, <1>4, <1>5 DEF a

\* What the loader finds behind the first word.
LEMMA ToldRest ==
  ASSUME NEW n \in Nat, n <= MaxInt, NEW c \in [1 .. 4 -> Byte]
  PROVE  LET r == SubSeq(Told(n, c), 5, 16)
         IN  /\ SubSeq(r, 1, 4) = ARMBASE /\ SubSeq(r, 5, 8) = Number(n)
             /\ SubSeq(r, 9, 12) = c /\ SubSeq(r, 13, Len(r)) = << >>
<1> DEFINE a == Told(n, c)
           r == SubSeq(a, 5, 16)
<1>1. /\ a \in Seq(Byte) /\ Len(a) = 16
      /\ SubSeq(a, 5, 8) = ARMBASE
      /\ SubSeq(a, 9, 12) = Number(n) /\ SubSeq(a, 13, 16) = c
  BY ToldWords
<1> HIDE DEF a
<1>2. r = SubSeq(a, 4 + 1, 4 + 12)
  OBVIOUS
<1>3. r \in Seq(Byte) /\ Len(r) = 12
  <2>1. 4 + 12 <= Len(a) /\ 4 \in Nat /\ 12 \in Nat
    BY <1>1
  <2> HIDE DEF r
  <2>2. SubSeq(a, 4 + 1, 4 + 12) \in Seq(Byte) /\ Len(SubSeq(a, 4 + 1, 4 + 12)) = 12
    BY <1>1, <2>1, Part
  <2> QED BY <1>2, <2>2
<1>4. \A j \in {0, 4, 8} : SubSeq(r, j + 1, j + 4) = SubSeq(a, 4 + j + 1, 4 + j + 4)
  <2> TAKE j \in {0, 4, 8}
  <2>1. 4 + 12 <= Len(a) /\ j \in Nat /\ j + 4 <= 12
    BY <1>1
  <2> HIDE DEF r
  <2>2. SubSeq(SubSeq(a, 4 + 1, 4 + 12), j + 1, j + 4) = SubSeq(a, 4 + j + 1, 4 + j + 4)
    BY <1>1, <2>1, PartOfPart
  <2> QED BY <1>2, <2>2
<1> HIDE DEF r
<1>5. SubSeq(r, 1, 4) = ARMBASE
  <2>1. SubSeq(r, 0 + 1, 0 + 4) = SubSeq(a, 4 + 0 + 1, 4 + 0 + 4)
    BY <1>4
  <2> QED BY <1>1, <2>1
<1>6. SubSeq(r, 5, 8) = Number(n)
  <2>1. SubSeq(r, 4 + 1, 4 + 4) = SubSeq(a, 4 + 4 + 1, 4 + 4 + 4)
    BY <1>4
  <2> QED BY <1>1, <2>1
<1>7. SubSeq(r, 9, 12) = c
  <2>1. SubSeq(r, 8 + 1, 8 + 4) = SubSeq(a, 4 + 8 + 1, 4 + 8 + 4)
    BY <1>4
  <2> QED BY <1>1, <2>1
<1>8. SubSeq(r, 13, Len(r)) = << >>
  <2>1. SubSeq(r, 12 + 1, 12 + 0) \in Seq(Byte) /\ Len(SubSeq(r, 12 + 1, 12 + 0)) = 0
    <3>1. 12 + 0 <= Len(r)
      BY <1>3
    <3> QED BY <1>3, <3>1, Part
  <2>2. 12 + 1 = 13 /\ 12 + 0 = Len(r)
    BY <1>3
  <2> QED BY <2>1, <2>2, EmptySeq
<1> QED BY <1>5, <1>6, <1>7, <1>8 DEF r, a

----------------------------------------------------------------------------
(***************************************************************************)
(* Types.                                                                   *)
(***************************************************************************)
LEMMA SumIs ==
  ASSUME NEW p \in Programs
  PROVE  Sum[p] \in [1 .. 4 -> Byte] /\ BitsOf(Sum[p]) = Checksum(p)
<1>1. p \in Seq(Byte)
  BY ProgramsAssumption
<1>2. Sum[p] = WordOf(crc32(p))
  BY DEF Sum
<1>3. crc32(p) \in SUBSET Ones /\ crc32(p) = Checksum(p)
  BY <1>1, crc32Word, TableIsDivision
<1>4. WordOf(crc32(p)) \in [1 .. 4 -> Byte] /\ BitsOf(WordOf(crc32(p))) = crc32(p)
  BY <1>3, WordOfBits
<1> QED BY <1>2, <1>3, <1>4

\* get32 takes the first word of what was said.
LEMMA TakeWord ==
  ASSUME NEW t \in Seq(Byte), NEW o \in Seq(Byte), Len(t) >= 4
  PROVE  /\ SubSeq(t, 1, 4) \in [1 .. 4 -> Byte]
         /\ SubSeq(t, 5, Len(t)) \in Seq(Byte)
         /\ SubSeq(t, 1, 4) = SubSeq(t \o o, 1, 4)
         /\ SubSeq(t, 5, Len(t)) \o o = Drop(t \o o, 4)
         /\ Len(t \o o) >= 4
<1> DEFINE q == t \o o
           v == SubSeq(t, 1, 4)
           w == SubSeq(q, 1, 4)
<1>1. /\ q \in Seq(Byte) /\ Len(q) = Len(t) + Len(o) /\ Len(t) \in Nat /\ Len(o) \in Nat
      /\ \A i \in 1 .. Len(t) : q[i] = t[i]
  BY Joined
<1>2. Drop(q, 4) = Drop(t, 4) \o o /\ Drop(t, 4) \in Seq(Byte) /\ Len(q) >= 4
  <2>1. 4 \in Nat
    OBVIOUS
  <2>2. Drop(t \o o, 4) = Drop(t, 4) \o o /\ Drop(t, 4) \in Seq(Byte)
    BY <2>1, DropJoined, DropIs
  <2> QED BY <1>1, <2>2
<1>3. Drop(t, 4) = SubSeq(t, 5, Len(t))
  BY DEF Drop
<1> HIDE DEF q
<1>4. \A s \in Seq(Byte) : Len(s) >= 4 => /\ SubSeq(s, 1, 4) \in Seq(Byte) /\ Len(SubSeq(s, 1, 4)) = 4
                                          /\ \A i \in 1 .. 4 : SubSeq(s, 1, 4)[i] = s[i]
  <2> TAKE s \in Seq(Byte)
  <2> HAVE Len(s) >= 4
  <2>1. 0 + 4 <= Len(s) /\ 0 + 1 = 1 /\ 0 + 4 = 4 /\ 0 \in Nat /\ 4 \in Nat /\ \A i \in 1 .. 4 : 0 + i = i
    OBVIOUS
  <2>2. /\ SubSeq(s, 0 + 1, 0 + 4) \in Seq(Byte) /\ Len(SubSeq(s, 0 + 1, 0 + 4)) = 4
        /\ \A i \in 1 .. 4 : SubSeq(s, 0 + 1, 0 + 4)[i] = s[0 + i]
    BY <2>1, Part
  <2> QED BY <2>1, <2>2
<1>5. v \in Seq(Byte) /\ Len(v) = 4 /\ \A i \in 1 .. 4 : v[i] = t[i]
  BY <1>4
<1>6. w \in Seq(Byte) /\ Len(w) = 4 /\ \A i \in 1 .. 4 : w[i] = q[i]
  BY <1>1, <1>2, <1>4
<1> HIDE DEF v, w
<1>7. \A i \in 1 .. 4 : v[i] = w[i]
  BY <1>1, <1>5, <1>6, SMTT(30)
<1>8. v = w
  BY <1>5, <1>6, <1>7, Same
<1>9. v \in [1 .. 4 -> Byte]
  BY <1>5, FourBytes
<1> QED BY <1>2, <1>3, <1>8, <1>9 DEF v, w, q

\* get8 takes the first byte of what was said.
LEMMA TakeByte ==
  ASSUME NEW t \in Seq(Byte), NEW o \in Seq(Byte), t # << >>
  PROVE  /\ Head(t) \in Byte /\ Tail(t) \in Seq(Byte)
         /\ Head(t) = (t \o o)[1] /\ Tail(t) \o o = Drop(t \o o, 1) /\ Len(t \o o) >= 1
<1>1. Len(t) >= 1 /\ Tail(t) = Drop(t, 1) /\ Head(t) = t[1] /\ t[1] \in Byte
  BY DropTail
<1>2. Drop(t \o o, 1) = Drop(t, 1) \o o /\ Drop(t, 1) \in Seq(Byte)
  BY <1>1, DropJoined, DropIs
<1>3. /\ Len(t \o o) = Len(t) + Len(o) /\ Len(t) \in Nat /\ Len(o) \in Nat
      /\ \A i \in 1 .. Len(t) : (t \o o)[i] = t[i]
  BY Joined
<1>4. 1 \in 1 .. Len(t)
  BY <1>1, <1>3
<1>5. (t \o o)[1] = t[1] /\ Len(t \o o) >= 1
  BY <1>1, <1>3, <1>4
<1> QED BY <1>1, <1>2, <1>5

\* What the loader says is bytes.
LEMMA SpeechSeq ==
  \A t \in Speech \cup {GET_PROG_INFO} : t \in Seq(Byte)
<1>1. << >> \in Seq(Byte)
  OBVIOUS
<1>2. \A t \in {GET_CODE, BOOT_SUCCESS, BOOT_ERROR, GET_PROG_INFO} : t \in Seq(Byte)
  BY WordsAre DEF Words
<1> QED BY <1>1, <1>2, PrintedIs, ZenonT(30) DEF Speech

\* The initial states.
LEMMA TypeInit ==
  Init => TypeOK /\ Progress /\ Loader
<1> SUFFICES ASSUME Init PROVE TypeOK /\ Progress /\ Loader
  OBVIOUS
<1>1. /\ << >> \in Seq(Byte) /\ <<0, 0, 0, 0>> \in [1 .. 4 -> Byte] /\ toMac \in Seq(Byte)
      /\ 0 \in 0 .. MaxSize /\ 0 \in 0 .. WaitLimit + 1
      /\ 0 \in 0 .. MaxChars /\ 0 \in 0 .. MaxDeploys /\ 0 \in 0 .. MaxFaults /\ 0 \in Nat
  <2>1. << >> \in Seq(Byte) /\ <<0, 0, 0, 0>> \in [1 .. 4 -> Byte] /\ 0 \in Nat
    BY DEF Byte
  <2>2. toMac \in Seq(Byte)
    BY StaleAssumption DEF Init
  <2>3. /\ MaxSize \in Nat /\ WaitLimit \in Nat /\ MaxChars \in Nat /\ MaxDeploys \in Nat
        /\ MaxFaults \in Nat
    BY BoundsAssumption, SMTT(30)
  <2>4. /\ 0 \in 0 .. MaxSize /\ 0 \in 0 .. WaitLimit + 1
        /\ 0 \in 0 .. MaxChars /\ 0 \in 0 .. MaxDeploys /\ 0 \in 0 .. MaxFaults
    BY <2>3
  <2> QED BY <2>1, <2>2, <2>4
<1>2. info \in [size : 0 .. MaxSize, crc : [1 .. 4 -> Byte]]
  BY <1>1 DEF Init, Nothing
<1>3. TypeOK
  BY <1>1, <1>2 DEF Init, TypeOK, MacStates, PiStates
<1> QED BY <1>3 DEF Init, Progress, Loader, Seeking

\* What boot reads and sends.
LEMMA TypeMac ==
  TypeOK /\ Progress /\ Loader /\ (MacWorks \/ Killed \/ \E p \in Programs : Open(p))
    => TypeOK' /\ Progress' /\ Loader'
<1> SUFFICES ASSUME TypeOK, Progress, Loader, MacWorks \/ Killed \/ \E p \in Programs : Open(p)
             PROVE  TypeOK' /\ Progress' /\ Loader'
  OBVIOUS
<1>0. /\ 0 \in 0 .. MaxChars /\ 0 \in 0 .. WaitLimit + 1 /\ 0 \in Nat
      /\ MaxChars \in Nat /\ WaitLimit \in Nat /\ MaxDeploys \in Nat
      /\ <<0, 0, 0, 0>> \in [1 .. 4 -> Byte] /\ << >> \in Seq(Byte)
  BY BoundsAssumption DEF Byte
<1>1. toMac \in Seq(Byte) /\ toPi \in Seq(Byte) /\ out \in Seq(Byte)
  BY DEF TypeOK
<1>2. ASSUME Get32
      PROVE  Word \in [1 .. 4 -> Byte] /\ toMac' \in Seq(Byte) /\ Value(Word) \in Nat
  <2>1. Word \in [1 .. 4 -> Byte] /\ toMac' \in Seq(Byte)
    BY <1>1, <1>2, TakeWord DEF Get32, Word
  <2> QED BY <2>1, ValueIs
<1>3. ASSUME Get8
      PROVE  Head(toMac) \in Byte /\ toMac' \in Seq(Byte)
  BY <1>1, <1>3, TakeByte DEF Get8
<1>4. program \in Programs => /\ program \in Seq(Byte) /\ Len(program) \in Nat
                              /\ Len(program) >= 1 /\ Len(program) <= MaxInt
  BY ProgramsAssumption, LenProperties
<1>5. CASE \E p \in Programs : Open(p)
  <2> PICK p \in Programs : Open(p)
    BY <1>5
  <2>1. Sum[p] \in [1 .. 4 -> Byte]
    BY SumIs
  <2>2. TypeOK'
    <3>1. undisturbed' \in BOOLEAN /\ harm' \in {"none", "byte", "other"}
      BY DEF Open
    <3>2. deploys' \in 0 .. MaxDeploys
      BY <1>0 DEF Open, TypeOK
    <3> QED BY <1>0, <2>1, <3>1, <3>2 DEF Open, TypeOK, MacStates, PiStates, piVars, lines
  <2>3. Progress'
    BY <1>0 DEF Open, Progress, Seeking, TypeOK
  <2>4. Loader'
    BY DEF Open, Loader, TypeOK, piVars, lines
  <2> QED BY <2>2, <2>3, <2>4
<1>6. CASE FirstWord
  <2>1. Word \in [1 .. 4 -> Byte] /\ toMac' \in Seq(Byte)
    BY <1>2, <1>6 DEF FirstWord
  <2>2. TypeOK'
    BY <2>1, <1>6 DEF FirstWord, TypeOK, MacStates, PiStates, piVars, histVars
  <2>3. Progress'
    BY <1>6 DEF FirstWord, Progress, Seeking, histVars
  <2>4. Loader'
    BY <1>6 DEF FirstWord, Loader, piVars, histVars
  <2> QED BY <2>2, <2>3, <2>4
<1>7. CASE SeekByte
  <2>1. Head(toMac) \in Byte /\ toMac' \in Seq(Byte)
    BY <1>3, <1>7 DEF SeekByte
  <2>2. op' \in [1 .. 4 -> Byte]
    <3>1. op \in Seq(Byte) /\ Len(op) = 4
      BY FourBytesSeq DEF TypeOK
    <3>2. Tail(op) \in Seq(Byte) /\ Len(Tail(op)) = 3
      BY <3>1
    <3>3. Append(Tail(op), Head(toMac)) \in Seq(Byte) /\ Len(Append(Tail(op), Head(toMac))) = 4
      BY <2>1, <3>2
    <3>4. Append(Tail(op), Head(toMac)) \in [1 .. 4 -> Byte]
      BY <3>3, FourBytes
    <3> QED BY <1>7, <3>4 DEF SeekByte
  <2>3. mac' \in {"answer", "length", "seek"}
    BY <1>7 DEF SeekByte
  <2>4. TypeOK'
    BY <2>1, <2>2, <2>3, <1>7 DEF SeekByte, TypeOK, MacStates, PiStates, piVars, histVars
  <2>5. mac' = "length" => op' = PRINT_STRING
    BY <1>7 DEF SeekByte
  <2>6. Progress'
    BY <1>7, <2>3, <2>5 DEF SeekByte, Progress, Seeking, histVars
  <2>7. Loader'
    BY <1>7 DEF SeekByte, Loader, piVars, histVars
  <2> QED BY <2>4, <2>6, <2>7
<1>8. CASE StringLength
  <2>1. Value(Word) \in Nat /\ toMac' \in Seq(Byte)
    BY <1>2, <1>8 DEF StringLength
  <2>2. left' \in 0 .. MaxChars
    BY <1>0, <1>8, <2>1 DEF StringLength, Least
  <2>3. mac' \in {"seek", "chars"} /\ (mac' = "chars" => left' > 0)
    BY <1>8, <2>2 DEF StringLength
  <2>4. TypeOK'
    BY <2>1, <2>2, <2>3, <1>8 DEF StringLength, TypeOK, MacStates, PiStates, piVars, histVars
  <2>5. Progress'
    BY <1>8, <2>3 DEF StringLength, Progress, Seeking, histVars
  <2>6. Loader'
    BY <1>8 DEF StringLength, Loader, piVars, histVars
  <2> QED BY <2>4, <2>5, <2>6
<1>9. CASE StringChar
  <2>1. toMac' \in Seq(Byte)
    BY <1>3, <1>9 DEF StringChar
  <2>2. left' \in 0 .. MaxChars
    BY <1>0, <1>9 DEF StringChar, TypeOK, Progress
  <2>3. mac' \in {"seek", "chars"} /\ (mac' = "chars" => left' > 0)
    <3>1. left' \in Nat
      BY <1>0, <2>2
    <3>2. mac' = IF left' = 0 THEN "seek" ELSE "chars"
      BY <1>9 DEF StringChar
    <3> QED BY <3>1, <3>2
  <2>4. TypeOK'
    BY <2>1, <2>2, <2>3, <1>9 DEF StringChar, TypeOK, MacStates, PiStates, piVars, histVars
  <2>5. Progress'
    BY <1>9, <2>3 DEF StringChar, Progress, Seeking, histVars
  <2>6. Loader'
    BY <1>9 DEF StringChar, Loader, piVars, histVars
  <2> QED BY <2>4, <2>5, <2>6
<1>10. CASE SendInfo
  <2>1. /\ sent \in 0 .. 3 /\ program \in Programs /\ crc \in [1 .. 4 -> Byte]
    BY <1>10 DEF SendInfo, Progress, TypeOK
  <2>2. ProgInfo[sent + 1] \in Seq(Byte)
    BY <1>4, <2>1, ToldGrows DEF ProgInfo
  <2>3. toPi' \in Seq(Byte)
    BY <1>1, <1>10, <2>2, Joined DEF SendInfo, Put32
  <2>4. sent' \in 0 .. 3 /\ mac' \in {"drain", "answer"} /\ (mac' = "drain" => sent' = 0)
    BY <1>10, <2>1 DEF SendInfo
  <2>5. TypeOK'
    BY <2>3, <2>4, <1>10 DEF SendInfo, TypeOK, MacStates, PiStates, piVars, histVars
  <2>6. Progress'
    BY <1>10, <2>4 DEF SendInfo, Progress, Seeking, histVars
  <2>7. deploys > 0
    BY <1>10 DEF SendInfo, Progress
  <2>8. Loader'
    BY <1>10, <2>7 DEF SendInfo, Loader, piVars, histVars
  <2> QED BY <2>5, <2>6, <2>8
<1>11. CASE Drain
  <2>1. toMac' \in Seq(Byte)
    BY <1>2, <1>11 DEF Drain
  <2>2. mac' \in {"drain", "code", "off"}
    BY <1>11 DEF Drain, AfterDrain
  <2>3. TypeOK'
    BY <2>1, <2>2, <1>11 DEF Drain, TypeOK, MacStates, PiStates, piVars, histVars
  <2>4. Progress'
    BY <1>11, <2>2 DEF Drain, Progress, Seeking, histVars
  <2>5. Loader'
    BY <1>11 DEF Drain, Loader, piVars, histVars
  <2> QED BY <2>3, <2>4, <2>5
<1>12. CASE PutCode
  <2>1. toPi' \in Seq(Byte) /\ program \in Programs /\ deploys > 0 /\ sent = 0
    <3>1. PUT_CODE \in Seq(Byte)
      BY WordsAre DEF Words
    <3> QED BY <1>1, <1>12, <3>1, Joined DEF PutCode, Put32, Progress
  <2>2. TypeOK'
    BY <2>1, <1>12 DEF PutCode, TypeOK, MacStates, PiStates, piVars, histVars
  <2>3. sent < Len(program)
    BY <1>4, <2>1
  <2>4. Progress'
    BY <1>12, <2>3 DEF PutCode, Progress, Seeking, histVars
  <2>5. Loader'
    BY <1>12, <2>1 DEF PutCode, Loader, piVars, histVars
  <2> QED BY <2>2, <2>4, <2>5
<1>13. CASE PutByte
  <2>1. sent \in Nat /\ sent < Len(program) /\ program \in Programs /\ deploys > 0
    BY <1>13 DEF PutByte, Progress, TypeOK
  <2>2. ToSend[sent + 1] \in Byte
    <3>1. sent + 1 \in 1 .. Len(program)
      BY <1>4, <2>1
    <3> QED BY <1>4, <2>1, <3>1, ElementOfSeq DEF ToSend
  <2>3. toPi' \in Seq(Byte)
    BY <1>1, <1>13, <2>2 DEF PutByte
  <2>4. /\ sent' = sent + 1 /\ mac' \in {"wait", "bytes"}
        /\ mac' = "bytes" => sent' < Len(program)
    BY <1>4, <1>13, <2>1 DEF PutByte, ToSend
  <2>5. TypeOK'
    BY <2>1, <2>3, <2>4, <1>13 DEF PutByte, TypeOK, MacStates, PiStates, piVars, histVars
  <2>6. Progress'
    BY <1>13, <2>4 DEF PutByte, Progress, Seeking, histVars
  <2>7. Loader'
    BY <1>13, <2>1 DEF PutByte, Loader, piVars, histVars
  <2> QED BY <2>5, <2>6, <2>7
<1>14. CASE Wait
  <2>1. toMac' \in Seq(Byte)
    BY <1>2, <1>14 DEF Wait
  <2>2. mac' \in {"booted", "off", "wait"}
    BY <1>14 DEF Wait, AfterWait
  <2>3. skipped' \in 0 .. WaitLimit + 1
    BY <1>0, <1>14 DEF Wait, Least, TypeOK
  <2>4. TypeOK'
    BY <2>1, <2>2, <2>3, <1>14 DEF Wait, TypeOK, MacStates, PiStates, piVars, histVars
  <2>5. Progress'
    BY <1>14, <2>2 DEF Wait, Progress, Seeking, histVars
  <2>6. Loader'
    BY <1>14 DEF Wait, Loader, piVars, histVars
  <2> QED BY <2>4, <2>5, <2>6
<1>15. CASE ReadTimeout
  <2>1. TypeOK'
    BY <1>0, <1>15 DEF ReadTimeout, Gone, TypeOK, MacStates, PiStates, piVars
  <2>2. Progress'
    BY <1>15 DEF ReadTimeout, Gone, Progress, Seeking
  <2>3. Loader'
    BY <1>15 DEF ReadTimeout, Loader, piVars
  <2> QED BY <2>1, <2>2, <2>3
<1>16. CASE Killed
  <2>1. PICK k \in IF mac \in ReadsWord THEN 0 .. Least(3, Len(toMac)) ELSE {0} :
          toMac' = SubSeq(toMac, k + 1, Len(toMac))
    BY <1>16 DEF Killed
  <2>2. k \in Nat /\ k <= Len(toMac)
    <3>1. Len(toMac) \in Nat
      BY <1>1, LenProperties
    <3> QED BY <2>1, <3>1 DEF Least
  <2>3. toMac' \in Seq(Byte)
    BY <1>1, <2>1, <2>2, DropIs DEF Drop
  <2>4. TypeOK'
    BY <1>0, <1>16, <2>3 DEF Killed, Gone, TypeOK, MacStates, PiStates, piVars
  <2>5. Progress'
    BY <1>16 DEF Killed, Gone, Progress, Seeking
  <2>6. Loader'
    BY <1>16 DEF Killed, Loader, piVars
  <2> QED BY <2>4, <2>5, <2>6
<1> QED BY <1>5, <1>6, <1>7, <1>8, <1>9, <1>10, <1>11, <1>12, <1>13, <1>14, <1>15, <1>16 DEF MacWorks

\* A line with a fault is still a line of bytes.
LEMMA FaultySeq ==
  ASSUME NEW s \in Seq(Byte), NEW i \in 1 .. Len(s)
  PROVE  /\ Without(s, i) \in Seq(Byte)
         /\ \A b \in Noise : /\ Garbled(s, i, b) \in Seq(Byte) /\ Len(Garbled(s, i, b)) = Len(s)
                             /\ Garbled(s, i, b)[i] = b
                             /\ \A j \in 1 .. Len(s) : j # i => Garbled(s, i, b)[j] = s[j]
<1>1. PICK j \in Nat : j = i - 1 /\ 0 + j = i - 1 /\ 0 + j <= Len(s) /\ i \in Nat /\ i <= Len(s) /\ 0 \in Nat
  <2>1. Len(s) \in Nat /\ i - 1 \in Nat /\ 0 + (i - 1) = i - 1
    BY LenProperties
  <2> QED BY <2>1
<1>2. SubSeq(s, 0 + 1, 0 + j) \in Seq(Byte)
  BY <1>1, Part
<1>3. SubSeq(s, i + 1, Len(s)) \in Seq(Byte)
  BY <1>1, DropIs DEF Drop
<1>4. SubSeq(s, 1, i - 1) \in Seq(Byte)
  BY <1>1, <1>2
<1>5. Without(s, i) \in Seq(Byte)
  BY <1>3, <1>4, Joined DEF Without
<1>6. ASSUME NEW b \in Noise
      PROVE  /\ Garbled(s, i, b) \in Seq(Byte) /\ Len(Garbled(s, i, b)) = Len(s)
             /\ Garbled(s, i, b)[i] = b
             /\ \A k \in 1 .. Len(s) : k # i => Garbled(s, i, b)[k] = s[k]
  <2>1. b \in Byte
    BY StaleAssumption
  <2>2. /\ Garbled(s, i, b) \in Seq(Byte) /\ Len(Garbled(s, i, b)) = Len(s)
        /\ \A k \in 1 .. Len(s) : Garbled(s, i, b)[k] = IF k = i THEN b ELSE s[k]
    BY <2>1, ExceptSeq DEF Garbled
  <2> QED BY <2>2
<1> QED BY <1>5, <1>6

\* What the loader reads and says, and what goes wrong on the line.
LEMMA TypePi ==
  TypeOK /\ Progress /\ Loader /\ (PiWorks \/ PowerOn \/ PowerFails \/ LineFails)
    => TypeOK' /\ Progress' /\ Loader'
<1> SUFFICES ASSUME TypeOK, Progress, Loader, PiWorks \/ PowerOn \/ PowerFails \/ LineFails
             PROVE  TypeOK' /\ Progress' /\ Loader'
  OBVIOUS
<1>0. /\ MaxSize \in Nat /\ MaxFaults \in Nat /\ MaxDeploys \in Nat /\ << >> \in Seq(Byte)
      /\ Nothing \in [size : 0 .. MaxSize, crc : [1 .. 4 -> Byte]]
  <2>1. 0 \in 0 .. MaxSize /\ <<0, 0, 0, 0>> \in [1 .. 4 -> Byte] /\ MaxSize \in Nat
    BY BoundsAssumption, SMTT(30) DEF Byte
  <2>2. Nothing \in [size : 0 .. MaxSize, crc : [1 .. 4 -> Byte]]
    BY <2>1 DEF Nothing
  <2>3. MaxFaults \in Nat /\ MaxDeploys \in Nat /\ << >> \in Seq(Byte)
    BY BoundsAssumption
  <2> QED BY <2>1, <2>2, <2>3, SMTT(30)
<1>1. /\ toMac \in Seq(Byte) /\ toPi \in Seq(Byte) /\ out \in Seq(Byte)
      /\ Len(toMac) \in Nat /\ Len(toPi) \in Nat /\ Len(out) \in Nat
  BY LenProperties DEF TypeOK
<1>2. /\ GET_PROG_INFO \in Seq(Byte) /\ GET_CODE \in Seq(Byte)
      /\ BOOT_SUCCESS \in Seq(Byte) /\ BOOT_ERROR \in Seq(Byte)
  BY SpeechSeq DEF Speech
<1>3. ASSUME UNCHANGED macVars, deploys' = deploys, started' = started PROVE Progress'
  BY <1>3 DEF Progress, macVars
<1>4. CASE PiPuts
  <2>1. toMac' \in Seq(Byte)
    BY <1>1, <1>4, Joined DEF PiPuts
  <2>2. TypeOK'
    BY <1>0, <1>4, <2>1 DEF PiPuts, TypeOK, MacStates, PiStates, macVars, histVars
  <2>3. Progress'
    BY <1>3, <1>4 DEF PiPuts, histVars
  <2>4. Loader'
    BY <1>4 DEF PiPuts, Loader, histVars
  <2> QED BY <2>2, <2>3, <2>4
<1>5. CASE Greet
  <2>1. out' \in Seq(Byte)
    <3>1. out' \in Speech
      BY <1>5 DEF Greet, Speech
    <3> QED BY <3>1, SpeechSeq
  <2>2. TypeOK'
    BY <1>5, <2>1 DEF Greet, TypeOK, MacStates, PiStates, macVars, histVars, lines
  <2>3. Progress'
    BY <1>3, <1>5 DEF Greet, histVars
  <2>4. Loader'
    BY <1>5 DEF Greet, Loader, histVars, lines
  <2> QED BY <2>2, <2>3, <2>4
<1>6. CASE Ask
  <2>1. TypeOK'
    BY <1>2, <1>6 DEF Ask, TypeOK, MacStates, PiStates, macVars, histVars, lines
  <2>2. Progress'
    BY <1>3, <1>6 DEF Ask, histVars
  <2>3. Loader'
    BY <1>6 DEF Ask, Loader, histVars, lines
  <2> QED BY <2>1, <2>2, <2>3
<1>7. CASE ReadRequest
  <2>1. /\ pi' \in {"info", "greeting"} /\ out' \in {out, BOOT_ERROR} /\ info' \in {info, Nothing}
        /\ pi' = "info" => out' = << >>
    BY <1>7 DEF ReadRequest, Rejects
  <2>2. toPi' \in Seq(Byte) /\ deploys # 0
    <3>1. 4 \in Nat /\ toPi' = Drop(toPi, 4) /\ 4 <= Len(toPi)
      BY <1>1, <1>7 DEF ReadRequest, Drop
    <3>2. toPi # << >>
      BY <3>1, EmptySeq
    <3> QED BY <1>1, <3>1, <3>2, DropIs DEF Loader
  <2>3. TypeOK'
    BY <1>0, <1>1, <1>2, <1>7, <2>1, <2>2, ZenonT(30) DEF ReadRequest, TypeOK, MacStates, PiStates, macVars, histVars
  <2>4. Progress'
    BY <1>3, <1>7 DEF ReadRequest, histVars
  <2>5. Loader'
    BY <1>7, <2>1, <2>2 DEF ReadRequest, Loader, histVars
  <2> QED BY <2>3, <2>4, <2>5
<1>8. CASE ReadInfo
  <2>1. 12 <= Len(toPi) /\ deploys # 0
    BY <1>8 DEF ReadInfo, Loader
  <2>2. toPi' \in Seq(Byte)
    <3>1. 12 \in Nat /\ toPi' = Drop(toPi, 12)
      BY <1>8 DEF ReadInfo, Drop
    <3> QED BY <1>1, <2>1, <3>1, DropIs
  <2>3. SubSeq(toPi, 5, 8) \in [1 .. 4 -> Byte] /\ SubSeq(toPi, 9, 12) \in [1 .. 4 -> Byte]
    <3>1. 4 + 4 <= Len(toPi) /\ 8 + 4 <= Len(toPi) /\ 4 \in Nat /\ 8 \in Nat
      BY <1>1, <2>1
    <3>2. /\ SubSeq(toPi, 4 + 1, 4 + 4) \in Seq(Byte) /\ Len(SubSeq(toPi, 4 + 1, 4 + 4)) = 4
          /\ SubSeq(toPi, 8 + 1, 8 + 4) \in Seq(Byte) /\ Len(SubSeq(toPi, 8 + 1, 8 + 4)) = 4
      BY <1>1, <3>1, Part
    <3>3. SubSeq(toPi, 4 + 1, 4 + 4) \in [1 .. 4 -> Byte] /\ SubSeq(toPi, 8 + 1, 8 + 4) \in [1 .. 4 -> Byte]
      BY <3>2, FourBytes
    <3> QED BY <3>3
  <2>4. Value(SubSeq(toPi, 5, 8)) \in Nat
    BY <2>3, ValueIs
  <2>5. info' \in [size : 0 .. MaxSize, crc : [1 .. 4 -> Byte]]
    <3>1. CASE Acceptable
      <4>1. PICK n \in 0 .. MaxSize : n = Value(SubSeq(toPi, 5, 8))
        BY <1>0, <2>4, <3>1 DEF Acceptable
      <4>2. PICK c \in [1 .. 4 -> Byte] : c = SubSeq(toPi, 9, 12)
        BY <2>3
      <4>3. info' = [size |-> n, crc |-> c]
        BY <1>8, <3>1, <4>1, <4>2 DEF ReadInfo
      <4> QED BY <4>3
    <3>2. CASE ~Acceptable
      BY <1>0, <1>8, <3>2 DEF ReadInfo, Rejects
    <3> QED BY <3>1, <3>2
  <2>6. pi' \in {"code", "greeting"} /\ out' \in {GET_CODE, BOOT_ERROR}
    BY <1>8 DEF ReadInfo, Rejects
  <2>7. TypeOK'
    BY <1>2, <1>8, <2>2, <2>5, <2>6, ZenonT(30) DEF ReadInfo, TypeOK, MacStates, PiStates, macVars, histVars
  <2>8. Progress'
    BY <1>3, <1>8 DEF ReadInfo, histVars
  <2>9. Loader'
    BY <1>8, <2>1, <2>6 DEF ReadInfo, Loader, histVars
  <2> QED BY <2>7, <2>8, <2>9
<1>9. CASE ReadCode
  <2>1. info.size \in Nat /\ 4 + info.size <= Len(toPi) /\ deploys # 0
    BY <1>0, <1>9 DEF ReadCode, Loader, TypeOK
  <2>2. toPi' \in Seq(Byte)
    <3>1. PICK n \in Nat : n = 4 + info.size /\ n + 1 = 5 + info.size
      BY <2>1
    <3>2. toPi' = Drop(toPi, n)
      BY <1>9, <3>1 DEF ReadCode, Drop
    <3> QED BY <1>1, <2>1, <3>1, <3>2, DropIs
  <2>3. SubSeq(toPi, 5, 4 + info.size) \in Seq(Byte)
    <3>1. SubSeq(toPi, 4 + 1, 4 + info.size) \in Seq(Byte)
      BY <1>1, <2>1, Part
    <3> QED BY <3>1
  <2>4. /\ memory' \in {memory, SubSeq(toPi, 5, 4 + info.size)} /\ out' \in {out, BOOT_ERROR}
        /\ pi' \in {"check", "greeting"} /\ info' \in {info, Nothing}
        /\ pi' = "check" => out' = << >>
    BY <1>9 DEF ReadCode, Rejects
  <2>5. TypeOK'
    <3>1. /\ mac' = mac /\ program' = program /\ crc' = crc /\ op' = op /\ left' = left /\ sent' = sent
          /\ skipped' = skipped /\ toMac' = toMac /\ deploys' = deploys /\ faults' = faults
          /\ started' = started /\ undisturbed' = undisturbed /\ harm' = harm
      BY <1>9 DEF ReadCode, macVars, histVars
    <3>2. /\ memory' \in Seq(Byte) /\ out' \in Seq(Byte) /\ pi' \in PiStates
          /\ info' \in [size : 0 .. MaxSize, crc : [1 .. 4 -> Byte]]
      <4>1. memory \in Seq(Byte) /\ out \in Seq(Byte) /\ info \in [size : 0 .. MaxSize, crc : [1 .. 4 -> Byte]]
        BY DEF TypeOK
      <4>2. memory' \in Seq(Byte)
        BY <2>3, <2>4, <4>1
      <4>3. out' \in Seq(Byte)
        BY <1>2, <2>4, <4>1
      <4>4. pi' \in PiStates
        BY <2>4 DEF PiStates
      <4>5. info' \in [size : 0 .. MaxSize, crc : [1 .. 4 -> Byte]]
        BY <1>0, <2>4, <4>1
      <4> QED BY <4>2, <4>3, <4>4, <4>5
    <3> QED BY <2>2, <3>1, <3>2 DEF TypeOK
  <2>6. Progress'
    BY <1>3, <1>9 DEF ReadCode, histVars
  <2>7. Loader'
    BY <1>9, <2>1, <2>4 DEF ReadCode, Loader, histVars
  <2> QED BY <2>5, <2>6, <2>7
<1>10. CASE CheckCode
  <2>1. /\ memory' \in {memory, << >>} /\ out' \in {BOOT_SUCCESS, BOOT_ERROR}
        /\ pi' \in {"running", "greeting"} /\ info' = Nothing /\ started' \in BOOLEAN
    BY <1>10 DEF CheckCode, Rejects, TypeOK
  <2>2. deploys # 0
    BY <1>10 DEF CheckCode, Loader
  <2>3. TypeOK'
    BY <1>0, <1>2, <1>10, <2>1, ZenonT(30) DEF CheckCode, TypeOK, MacStates, PiStates, macVars, lines
  <2>4. Progress'
    <3>1. started' => started \/ mac = "wait"
      BY <1>10 DEF CheckCode
    <3> QED BY <1>10, <3>1 DEF CheckCode, Progress, macVars, Seeking
  <2>5. Loader'
    BY <1>10, <2>1, <2>2 DEF CheckCode, Loader
  <2> QED BY <2>3, <2>4, <2>5
<1>11. CASE PowerOn
  <2>1. TypeOK'
    BY <1>0, <1>11, ZenonT(30) DEF PowerOn, TypeOK, MacStates, PiStates, macVars, histVars
  <2>2. Progress'
    BY <1>3, <1>11 DEF PowerOn, histVars
  <2>3. Loader'
    BY <1>11 DEF PowerOn, Loader, histVars
  <2> QED BY <2>1, <2>2, <2>3
<1>12. CASE PowerFails
  <2>1. PICK k \in 0 .. Len(out) : toMac' = toMac \o SubSeq(out, 1, k)
    BY <1>12 DEF PowerFails
  <2>2. toMac' \in Seq(Byte)
    <3>1. SubSeq(out, 0 + 1, 0 + k) \in Seq(Byte)
      <4>1. k \in Nat /\ 0 + k <= Len(out) /\ 0 \in Nat
        BY <1>1
      <4> QED BY <1>1, <4>1, Part
    <3>2. 0 + 1 = 1 /\ 0 + k = k
      BY <1>1
    <3>3. SubSeq(out, 1, k) \in Seq(Byte)
      BY <3>1, <3>2
    <3> QED BY <1>1, <2>1, <3>3, Joined
  <2>3. faults' \in 0 .. MaxFaults
    BY <1>0, <1>12 DEF PowerFails, Fault, TypeOK
  <2>4. TypeOK'
    BY <1>0, <1>12, <2>2, <2>3 DEF PowerFails, Fault, TypeOK, MacStates, PiStates, macVars
  <2>5. Progress'
    BY <1>3, <1>12 DEF PowerFails, Fault
  <2>6. Loader'
    BY <1>12 DEF PowerFails, Fault, Loader
  <2> QED BY <2>4, <2>5, <2>6
<1>13. CASE LineFails
  <2>1. /\ toPi' \in Seq(Byte) /\ toMac' \in Seq(Byte)
        /\ harm' \in {"byte", "other"} /\ (toPi = << >> => toPi' = << >>)
    <3>1. CASE \E i \in 1 .. Len(toPi) :
                 /\ \/ toPi' = Without(toPi, i) /\ harm' = "other"
                    \/ /\ \E b \in Noise \ {toPi[i]} : toPi' = Garbled(toPi, i, b)
                       /\ harm' = IF harm = "none" /\ InProgram(i) THEN "byte" ELSE "other"
                 /\ UNCHANGED toMac
      <4> PICK i \in 1 .. Len(toPi) :
                 /\ \/ toPi' = Without(toPi, i) /\ harm' = "other"
                    \/ /\ \E b \in Noise \ {toPi[i]} : toPi' = Garbled(toPi, i, b)
                       /\ harm' = IF harm = "none" /\ InProgram(i) THEN "byte" ELSE "other"
                 /\ UNCHANGED toMac
        BY <3>1
      <4>1. toPi' \in Seq(Byte)
        BY <1>1, FaultySeq
      <4>2. toPi # << >>
        <5>1. Len(toPi) # 0
          BY <1>1
        <5> QED BY <5>1, EmptySeq
      <4> QED BY <1>1, <4>1, <4>2
    <3>2. CASE \E i \in 1 .. Len(toMac) :
                 /\ toMac' \in {Without(toMac, i)} \cup {Garbled(toMac, i, b) : b \in Noise \ {toMac[i]}}
                 /\ harm' = "other"
                 /\ UNCHANGED toPi
      BY <1>1, <3>2, FaultySeq
    <3> QED BY <1>13, <3>1, <3>2 DEF LineFails
  <2>2. faults' \in 0 .. MaxFaults
    <3>1. faults \in 0 .. MaxFaults /\ faults < MaxFaults /\ faults' = faults + 1
      BY <1>13 DEF LineFails, Fault, TypeOK
    <3> QED BY <1>0, <3>1
  <2>3. TypeOK'
    BY <1>0, <1>13, <2>1, <2>2, ZenonT(30) DEF LineFails, Fault, TypeOK, MacStates, PiStates, macVars, piVars
  <2>4. Progress'
    BY <1>3, <1>13 DEF LineFails, Fault
  <2>5. Loader'
    BY <1>13, <2>1 DEF LineFails, Fault, Loader, piVars
  <2> QED BY <2>3, <2>4, <2>5
<1> QED BY <1>4, <1>5, <1>6, <1>7, <1>8, <1>9, <1>10, <1>11, <1>12, <1>13 DEF PiWorks

\* Every step keeps the types, the progress of boot and the state of the loader.
LEMMA TypeNext ==
  TypeOK /\ Progress /\ Loader /\ [Next]_vars => TypeOK' /\ Progress' /\ Loader'
<1>1. CASE UNCHANGED vars
  BY <1>1 DEF vars, macVars, piVars, lines, histVars, TypeOK, Progress, Loader
<1>2. CASE Next
  BY <1>2, TypeMac, TypePi DEF Next
<1> QED BY <1>1, <1>2

----------------------------------------------------------------------------
(***************************************************************************)
(* In step.                                                                 *)
(***************************************************************************)
LEMMA SaidSeq ==
  TypeOK => /\ Said \in Seq(Byte) /\ Len(Said) \in Nat
            /\ op \in Seq(Byte) /\ Len(op) = 4 /\ op \o Said \in Seq(Byte)
<1> SUFFICES ASSUME TypeOK
             PROVE  /\ Said \in Seq(Byte) /\ Len(Said) \in Nat
                    /\ op \in Seq(Byte) /\ Len(op) = 4 /\ op \o Said \in Seq(Byte)
  OBVIOUS
<1>1. toMac \in Seq(Byte) /\ out \in Seq(Byte) /\ op \in [1 .. 4 -> Byte]
  BY DEF TypeOK
<1>2. Said \in Seq(Byte)
  BY <1>1, Joined DEF Said
<1>3. op \in Seq(Byte) /\ Len(op) = 4
  BY <1>1, FourBytesSeq
<1>4. op \o Said \in Seq(Byte)
  BY <1>2, <1>3, Joined
<1> QED BY <1>2, <1>3, <1>4, LenProperties

\* A get32 of boot takes a word of what the loader said.
LEMMA SaidTakesWord ==
  ASSUME TypeOK, Get32, out' = out
  PROVE  Len(Said) >= 4 /\ Word = SubSeq(Said, 1, 4) /\ Said' = Drop(Said, 4)
<1>1. toMac \in Seq(Byte) /\ out \in Seq(Byte) /\ Len(toMac) >= 4
  BY DEF TypeOK, Get32
<1>2. /\ SubSeq(toMac, 1, 4) = SubSeq(toMac \o out, 1, 4)
      /\ SubSeq(toMac, 5, Len(toMac)) \o out = Drop(toMac \o out, 4)
      /\ Len(toMac \o out) >= 4
  BY <1>1, TakeWord
<1>3. Said' = SubSeq(toMac, 5, Len(toMac)) \o out
  BY DEF Said, Get32
<1> QED BY <1>2, <1>3 DEF Said, Word

\* A get8 of the first loop moves one byte from what was said into op.
LEMMA SaidTakesByte ==
  ASSUME TypeOK, Get8, out' = out
  PROVE  /\ Len(Said) >= 1 /\ Said' = Drop(Said, 1)
         /\ Append(Tail(op), Head(toMac)) \o Said' = Drop(op \o Said, 1)
<1> DEFINE x == Head(toMac)
           u == Tail(toMac)
           v == Tail(op)
<1>1. toMac \in Seq(Byte) /\ out \in Seq(Byte) /\ toMac # << >>
  BY DEF TypeOK, Get8
<1>2. /\ x \in Byte /\ u \in Seq(Byte) /\ u \o out = Drop(toMac \o out, 1) /\ Len(toMac \o out) >= 1
  BY <1>1, TakeByte
<1>3. op \in Seq(Byte) /\ Len(op) = 4 /\ Said \in Seq(Byte)
  BY SaidSeq
<1>4. op # << >>
  BY <1>3, EmptySeq
<1>5. v = Drop(op, 1) /\ v \in Seq(Byte)
  BY <1>3, <1>4, DropTail, HeadTailProperties
<1>6. <<x>> \o u = toMac
  <2>1. <<x>> \in Seq(Byte) /\ Len(<<x>>) = 1 /\ <<x>>[1] = x
    BY <1>2
  <2> DEFINE c == <<x>> \o u
             h == <<x>>
  <2>2. h \in Seq(Byte) /\ Len(h) = 1 /\ h[1] = x
    BY <2>1
  <2> HIDE DEF h
  <2>3. /\ c \in Seq(Byte) /\ Len(c) = 1 + Len(u) /\ c[1] = x
        /\ \A i \in 1 .. Len(u) : c[1 + i] = u[i]
    <3>1. h \o u \in Seq(Byte) /\ Len(h \o u) = Len(h) + Len(u)
          /\ (\A i \in 1 .. Len(h) : (h \o u)[i] = h[i])
          /\ (\A i \in 1 .. Len(u) : (h \o u)[Len(h) + i] = u[i])
      BY <1>2, <2>2, Joined
    <3>2. c = h \o u
      BY DEF h
    <3>3. 1 \in 1 .. Len(h)
      BY <2>2
    <3> HIDE DEF c, u
    <3> QED BY <2>2, <3>1, <3>2, <3>3
  <2>4. /\ Len(u) = Len(toMac) - 1 /\ Len(toMac) \in Nat
        /\ \A i \in 1 .. Len(u) : u[i] = toMac[i + 1]
    BY <1>1, HeadTailProperties, LenProperties
  <2>5. x = toMac[1]
    BY <1>1, DropTail
  <2> HIDE DEF c, u, x
  <2>6. Len(c) = Len(toMac)
    BY <2>3, <2>4
  <2>7. ASSUME NEW i \in 1 .. Len(c) PROVE c[i] = toMac[i]
    <3>1. CASE i = 1
      BY <2>3, <2>5, <3>1
    <3>2. CASE i # 1
      <4>1. PICK j \in 1 .. Len(u) : i = 1 + j /\ i = j + 1
        <5>1. i - 1 \in 1 .. Len(u) /\ i = 1 + (i - 1) /\ i = (i - 1) + 1
          BY <2>4, <2>6, <3>2
        <5> QED BY <5>1
      <4> QED BY <2>3, <2>4, <4>1
    <3> QED BY <3>1, <3>2
  <2>8. c = toMac
    BY <1>1, <2>3, <2>6, <2>7, Same
  <2> QED BY <2>8 DEF c
<1>7. Said' = u \o out
  BY DEF Said, Get8
<1>8. Append(v, x) \o (u \o out) = v \o (toMac \o out)
  <2>1. <<x>> \in Seq(Byte) /\ u \o out \in Seq(Byte)
    BY <1>1, <1>2, Joined
  <2>2. Append(v, x) = v \o <<x>>
    BY <1>2, <1>5, AppendIsConcat
  <2> DEFINE h == <<x>>
             r == u \o out
  <2>3. (v \o h) \o r = v \o (h \o r)
    <3> HIDE DEF v, h, r
    <3> QED BY <1>5, <2>1, ConcatAssociative, SMTT(30) DEF h, r
  <2>4. h \o r = (h \o u) \o out
    <3>1. h \in Seq(Byte) /\ u \in Seq(Byte) /\ out \in Seq(Byte)
      BY <1>1, <1>2, <2>1
    <3>2. \A a, b, c \in Seq(Byte) : (a \o b) \o c = a \o (b \o c)
      BY ConcatAssociative
    <3> HIDE DEF h, u
    <3> QED BY <3>1, <3>2
  <2> QED BY <1>6, <2>2, <2>3, <2>4
<1>9. Drop(op \o Said, 1) = Drop(op, 1) \o Said
  <2>1. 1 \in Nat /\ 1 <= Len(op)
    BY <1>3
  <2> QED BY <1>3, <2>1, DropJoined
<1> QED BY <1>2, <1>5, <1>7, <1>8, <1>9 DEF Said

\* No request that nobody waits for is on its way to boot.
NoOldRequest == ~ Old(op \o Said, pi = "asking" /\ toPi = << >>)

\* No old request in op and what was said.
LEMMA NoOldRequestIs ==
  TypeOK => (NoOldRequest <=> ~ OldRequest(op \o Said))
BY SaidSeq, OldIs DEF NoOldRequest

\* Taking nothing.
LEMMA DropNone ==
  ASSUME NEW s \in Seq(Byte)
  PROVE  Drop(s, 0) = s
<1>1. /\ Drop(s, 0) \in Seq(Byte) /\ Len(Drop(s, 0)) = Len(s) - 0 /\ Len(s) \in Nat
      /\ \A i \in 1 .. Len(s) - 0 : Drop(s, 0)[i] = s[0 + i]
  BY DropIs, LenProperties
<1>2. Len(s) - 0 = Len(s) /\ \A i \in 1 .. Len(s) : 0 + i = i
  BY <1>1
<1>3. Len(Drop(s, 0)) = Len(s) /\ \A i \in 1 .. Len(Drop(s, 0)) : Drop(s, 0)[i] = s[i]
  BY <1>1, <1>2
<1> QED BY <1>1, <1>3, Same

\* Neither the first op nor PRINT_STRING is part of a request.
LEMMA OpNoRequest ==
  ASSUME NEW o \in {<<0, 0, 0, 0>>, PRINT_STRING}, NEW s \in Seq(Byte), NEW waits
  PROVE  Old(o \o s, waits) <=> Old(s, waits)
<1>1. o \in Seq(Byte) /\ Len(o) = 4
  BY WordsAre DEF Words
<1>2. ASSUME ~ Old(s, waits) PROVE ~ Old(o \o s, waits)
  <2>1. \A i \in 1 .. 4 : o[i] # 34
    BY DEF PRINT_STRING
  <2> QED BY <1>1, <1>2, <2>1, NotOldBehind
<1>3. ASSUME ~ Old(o \o s, waits) PROVE ~ Old(s, waits)
  <2>1. o \o s \in Seq(Byte) /\ Len(o \o s) = Len(o) + Len(s) /\ Len(s) \in Nat
    BY <1>1, Joined
  <2>2. Drop(o \o s, Len(o) + 0) = Drop(s, 0)
    BY <2>1, DropBehind
  <2>3. Drop(s, 0) = s
    BY DropNone
  <2>4. 4 \in Nat /\ 4 <= Len(o \o s) /\ Len(o) + 0 = 4
    BY <1>1, <2>1
  <2>5. ~ Old(Drop(o \o s, 4), waits)
    BY <1>3, <2>1, <2>4, NotOldDropped
  <2> QED BY <2>2, <2>3, <2>4, <2>5
<1> QED BY <1>2, <1>3

\* boot reads a request that is waited for.
LEMMA RequestMet ==
  ASSUME NEW s \in Seq(Byte), NEW waits, ~ Old(GET_PROG_INFO \o s, waits)
  PROVE  waits /\ OnlyRequests(s)
<1> DEFINE g == GET_PROG_INFO
           v == g \o s
<1>1. g \in Seq(Byte) /\ Len(g) = 4
  BY WordsAre DEF Words
<1> HIDE DEF g
<1>2. v \in Seq(Byte) /\ Len(v) = 4 + Len(s) /\ Len(s) \in Nat
  BY <1>1, Joined, SMTT(30)
<1>3. SubSeq(v, 1, 4) = g
  BY <1>1, FirstPart
<1>4. Drop(v, 4) = s
  <2>1. Drop(v, Len(g) + 0) = Drop(s, 0)
    BY <1>1, <1>2, DropBehind
  <2>2. Len(g) + 0 = 4
    BY <1>1
  <2> QED BY <2>1, <2>2, DropNone
<1>5. Len(v) >= 4
  BY <1>2
<1>6. ~ Old(v, waits)
  BY DEF v, g
<1> HIDE DEF v
<1> QED BY <1>2, <1>3, <1>4, <1>5, <1>6, OldFirst DEF g

\* A word taken and put back.
LEMMA Retaken ==
  ASSUME NEW s \in Seq(Byte), Len(s) >= 4
  PROVE  SubSeq(s, 1, 4) \o Drop(s, 4) = s
<1>1. 4 + 1 = 5 /\ 1 \in 1 .. Len(s) + 1 /\ 4 \in 1 - 1 .. Len(s) /\ Len(s) \in 4 .. Len(s)
  BY LenProperties
<1>2. SubSeq(s, 1, 4) \o SubSeq(s, 4 + 1, Len(s)) = SubSeq(s, 1, Len(s))
  BY <1>1, ConcatAdjacentSubSeq
<1> QED BY <1>2, SubSeqFull DEF Drop

\* From opening the tty to the request that boot answers.
LEMMA SeekInStep ==
  ASSUME TypeOK, TypeOK', Progress, InStep, harm' # "other",
         (\E p \in Programs : Open(p)) \/ FirstWord \/ SeekByte \/ StringLength \/ StringChar
  PROVE  InStep'
<1> DEFINE waits == pi = "asking" /\ toPi = << >>
<1>1. /\ Said \in Seq(Byte) /\ Len(Said) \in Nat
      /\ op \in Seq(Byte) /\ Len(op) = 4 /\ op \o Said \in Seq(Byte)
  BY SaidSeq
<1>2. TypeOK' => /\ Said' \in Seq(Byte) /\ Len(Said') \in Nat
                 /\ op' \in Seq(Byte) /\ Len(op') = 4 /\ op' \o Said' \in Seq(Byte)
  <2>1. (TypeOK => /\ Said \in Seq(Byte) /\ Len(Said) \in Nat
                   /\ op \in Seq(Byte) /\ Len(op) = 4 /\ op \o Said \in Seq(Byte))'
    BY SaidSeq, PTL
  <2> QED BY <2>1
<1>3. NoOldRequest' <=> ~ OldRequest(op \o Said)'
  <2>1. (TypeOK => (NoOldRequest <=> ~ OldRequest(op \o Said)))'
    BY NoOldRequestIs, PTL
  <2> QED BY <2>1
<1>4. SUFFICES /\ mac' \in Seeking \cup {"answer"}
               /\ ~ Old(op' \o Said', (pi = "asking" /\ toPi = << >>)')
               /\ mac' = "answer" => op' = GET_PROG_INFO /\ sent' = 0
  <2>1. NoOldRequest'
    BY <1>4 DEF NoOldRequest
  <2>2. mac' = "answer" => Answered(sent)'
    <3> SUFFICES ASSUME mac' = "answer" PROVE Answered(sent)'
      OBVIOUS
    <3>1. (pi = "asking" /\ toPi = << >>)' /\ OnlyRequests(Said')
      BY <1>2, <1>4, RequestMet
    <3>2. SubSeq(Answer', 1, 4 * sent') = << >>
      <4>1. 4 * sent' = 0
        BY <1>4
      <4> QED BY <4>1, SubSeqEmpty
    <3> QED BY <3>1, <3>2 DEF Answered
  <2> QED BY <1>3, <1>4, <2>1, <2>2 DEF InStep, Seeking
<1>5. CASE \E p \in Programs : Open(p)
  <2> PICK p \in Programs : Open(p)
    BY <1>5
  <2>1. /\ mac' = "first" /\ op' = <<0, 0, 0, 0>> /\ Said' = Said
        /\ (pi = "asking" /\ toPi = << >>)' <=> waits
        /\ ~ OldRequest(Said)
    BY DEF Open, Said, piVars, lines
  <2>2. ~ Old(Said, waits)
    BY <1>1, <2>1, OldIs
  <2>3. ~ Old(op' \o Said, waits)
    BY <1>1, <2>1, <2>2, OpNoRequest
  <2>4. (pi = "asking" /\ toPi = << >>)' = waits
    BY <2>1
  <2> QED BY <2>1, <2>3, <2>4 DEF Seeking
<1>6. CASE FirstWord \/ SeekByte \/ StringLength \/ StringChar
  <2>1. /\ mac \in Seeking /\ sent = 0 /\ sent' = sent /\ out' = out
        /\ harm # "other"
        /\ (pi = "asking" /\ toPi = << >>)' <=> waits
    BY <1>6 DEF FirstWord, SeekByte, StringLength, StringChar, Progress, Seeking, piVars, histVars
  <2>2. (pi = "asking" /\ toPi = << >>)' = waits
    BY <2>1
  <2>3. ~ Old(op \o Said, waits)
    BY <2>1, NoOldRequestIs DEF InStep, NoOldRequest
  <2> HIDE DEF waits
  <2>4. CASE FirstWord
    <3>1. Len(Said) >= 4 /\ Word = SubSeq(Said, 1, 4) /\ Said' = Drop(Said, 4)
      BY <2>1, <2>4, SaidTakesWord DEF FirstWord
    <3>2. op = <<0, 0, 0, 0>>
      BY <2>4 DEF FirstWord, Progress
    <3>3. ~ Old(Said, waits)
      BY <1>1, <2>3, <3>2, OpNoRequest
    <3>4. op' = Word /\ mac' = IF Word = GET_PROG_INFO THEN "answer" ELSE "seek"
      BY <2>4 DEF FirstWord
    <3>5. op' \o Said' = Said
      BY <1>1, <3>1, <3>4, Retaken
    <3> QED BY <2>1, <2>2, <3>3, <3>4, <3>5 DEF Seeking
  <2>5. CASE SeekByte
    <3>1. op' = Append(Tail(op), Head(toMac)) /\ op' \o Said' = Drop(op \o Said, 1)
      BY <2>1, <2>5, SaidTakesByte DEF SeekByte
    <3>2. 1 \in Nat /\ 1 <= Len(op \o Said)
      <4>1. Len(op \o Said) = Len(op) + Len(Said)
        BY <1>1, Joined
      <4> QED BY <1>1, <4>1
    <3>3. ~ Old(op' \o Said', waits)
      BY <1>1, <2>3, <3>1, <3>2, NotOldDropped
    <3>4. mac' \in {"answer", "length", "seek"} /\ (mac' = "answer" => op' = GET_PROG_INFO)
      <4>1. GET_PROG_INFO # PRINT_STRING
        BY DEF GET_PROG_INFO, PRINT_STRING
      <4> QED BY <2>5 DEF SeekByte
    <3> QED BY <2>1, <2>2, <3>3, <3>4 DEF Seeking
  <2>6. CASE StringLength \/ StringChar
    <3>1. op = PRINT_STRING /\ op' = op /\ mac' \in {"seek", "chars"}
      BY <2>6 DEF StringLength, StringChar, Progress
    <3>2. \E n \in {1, 4} : n <= Len(Said) /\ Said' = Drop(Said, n)
      <4>1. CASE StringLength
        <5>1. Len(Said) >= 4 /\ Said' = Drop(Said, 4)
          BY <2>1, <4>1, SaidTakesWord DEF StringLength
        <5> QED BY <1>1, <5>1
      <4>2. CASE StringChar
        <5>1. Len(Said) >= 1 /\ Said' = Drop(Said, 1)
          BY <2>1, <4>2, SaidTakesByte DEF StringChar
        <5> QED BY <1>1, <5>1
      <4> QED BY <2>6, <4>1, <4>2
    <3>3. ~ Old(Said, waits)
      BY <1>1, <2>3, <3>1, OpNoRequest
    <3>4. ~ Old(Said', waits)
      BY <1>1, <3>2, <3>3, NotOldDropped
    <3>5. ~ Old(op' \o Said', waits)
      BY <1>2, <3>1, <3>4, OpNoRequest
    <3> QED BY <2>1, <2>2, <3>1, <3>5 DEF Seeking
  <2> QED BY <1>6, <2>4, <2>5, <2>6
<1> QED BY <1>5, <1>6

\* NearlyProgram, whatever the program; clean: nothing befell it.
Nearly(s, p, clean) ==
  /\ Len(s) <= Len(p)
  /\ clean => \A i \in 1 .. Len(s) : s[i] = p[i]
  /\ \A i, j \in 1 .. Len(s) : s[i] # p[i] /\ s[j] # p[j] => i = j

\* t is the word before the program and n bytes of it.
Loading(t, n, p, clean) ==
  /\ Len(t) = 4 + n
  /\ SubSeq(t, 1, 4) = PUT_CODE
  /\ Nearly(SubSeq(t, 5, 4 + n), p, clean)

\* The program on the line, with the line and the program as parameters.
LEMMA ComingIs ==
  \A n : Coming(n) <=> /\ pi = "code" /\ KnowsProgram /\ Said = << >> /\ ~started
                       /\ Loading(toPi, n, program, harm = "none")
BY DEF Coming, Loading, NearlyProgram, Nearly

\* The same after a step.
LEMMA ComingIsNext ==
  \A n : Coming(n)' <=> /\ pi' = "code" /\ KnowsProgram' /\ Said' = << >> /\ ~started'
                        /\ Loading(toPi', n, program', harm' = "none")
BY DEF Coming, Loading, NearlyProgram, Nearly

\* Byte for byte: at most one byte is not that of the program, none on a clean line.
LEMMA LoadingIs ==
  ASSUME NEW t \in Seq(Byte), NEW n \in Nat, Len(t) = 4 + n, NEW p, NEW clean
  PROVE  Loading(t, n, p, clean) <=>
           /\ At(PUT_CODE, t, 1)
           /\ n <= Len(p)
           /\ clean => \A i \in 1 .. n : t[4 + i] = p[i]
           /\ \A i, j \in 1 .. n : t[4 + i] # p[i] /\ t[4 + j] # p[j] => i = j
<1> DEFINE r == SubSeq(t, 5, 4 + n)
<1>1. r \in Seq(Byte) /\ Len(r) = n /\ \A i \in 1 .. n : r[i] = t[4 + i]
  <2>1. 4 \in Nat /\ 4 + n <= Len(t) /\ 4 + 1 = 5
    OBVIOUS
  <2>2. /\ SubSeq(t, 4 + 1, 4 + n) \in Seq(Byte) /\ Len(SubSeq(t, 4 + 1, 4 + n)) = n
        /\ \A i \in 1 .. n : SubSeq(t, 4 + 1, 4 + n)[i] = t[4 + i]
    BY <2>1, Part
  <2> QED BY <2>1, <2>2
<1> HIDE DEF r
<1>2. SubSeq(t, 1, 4) = PUT_CODE <=> At(PUT_CODE, t, 1)
  <2>1. PUT_CODE \in Words /\ Len(t) >= 4
    BY DEF Words
  <2> QED BY <2>1, AtFirst
<1>3. Nearly(r, p, clean) <=>
           /\ n <= Len(p)
           /\ clean => \A i \in 1 .. n : t[4 + i] = p[i]
           /\ \A i, j \in 1 .. n : t[4 + i] # p[i] /\ t[4 + j] # p[j] => i = j
  BY <1>1 DEF Nearly
<1> QED BY <1>2, <1>3 DEF Loading, r

\* PUT_CODE and no byte of the program.
LEMMA LoadingStarts ==
  ASSUME NEW p \in Seq(Byte), NEW clean
  PROVE  Loading(PUT_CODE, 0, p, clean)
<1>1. PUT_CODE \in Seq(Byte) /\ Len(PUT_CODE) = 4 + 0 /\ 0 \in Nat
  <2>1. PUT_CODE \in Seq(Byte) /\ Len(PUT_CODE) = 4
    BY WordsAre DEF Words
  <2> QED BY <2>1
<1>2. At(PUT_CODE, PUT_CODE, 1)
  BY DEF At
<1>3. 0 <= Len(p) /\ 1 .. 0 = {}
  BY LenProperties
<1> QED BY <1>1, <1>2, <1>3, LoadingIs

\* One byte more.
LEMMA LoadingGoesOn ==
  ASSUME NEW t \in Seq(Byte), NEW n \in Nat, NEW p \in Seq(Byte), NEW clean,
         Loading(t, n, p, clean), n < Len(p)
  PROVE  Loading(Append(t, p[n + 1]), n + 1, p, clean)
<1>0. Len(t) = 4 + n /\ Len(p) \in Nat
  BY LenProperties DEF Loading
<1>1. /\ At(PUT_CODE, t, 1)
      /\ n <= Len(p)
      /\ clean => \A i \in 1 .. n : t[4 + i] = p[i]
      /\ \A i, j \in 1 .. n : t[4 + i] # p[i] /\ t[4 + j] # p[j] => i = j
  BY <1>0, LoadingIs
<1> DEFINE b == p[n + 1]
           u == Append(t, b)
<1>2. b \in Byte
  <2>1. n + 1 \in 1 .. Len(p)
    BY <1>0
  <2> QED BY <2>1, ElementOfSeq
<1>3. /\ u \in Seq(Byte) /\ Len(u) = 4 + (n + 1)
      /\ \A i \in 1 .. 4 + n : u[i] = t[i]
      /\ u[4 + (n + 1)] = b
  <2>1. /\ u \in Seq(Byte) /\ Len(u) = Len(t) + 1
        /\ \A i \in 1 .. Len(t) : u[i] = t[i]
        /\ u[Len(t) + 1] = b
    BY <1>2, AppendProperties
  <2>2. Len(t) + 1 = 4 + (n + 1)
    BY <1>0
  <2> HIDE DEF u, b
  <2> QED BY <1>0, <2>1, <2>2
<1> HIDE DEF u
<1>4. At(PUT_CODE, u, 1)
  <2>1. \A k \in 1 .. 4 : 1 + k - 1 \in 1 .. 4 + n
    OBVIOUS
  <2>2. \A k \in 1 .. 4 : u[1 + k - 1] = t[1 + k - 1]
    BY <1>3, <2>1
  <2> QED BY <1>1, <2>2 DEF At
<1>5. \A i \in 1 .. n + 1 : u[4 + i] = IF i = n + 1 THEN p[i] ELSE t[4 + i]
  <2> TAKE i \in 1 .. n + 1
  <2>1. CASE i = n + 1
    BY <1>3, <2>1
  <2>2. CASE i # n + 1
    <3>1. 4 + i \in 1 .. 4 + n
      BY <2>2
    <3> QED BY <1>3, <2>2, <3>1
  <2> QED BY <2>1, <2>2
<1>6. n + 1 \in Nat /\ n + 1 <= Len(p) /\ \A i \in 1 .. n + 1 : i # n + 1 => i \in 1 .. n
  BY <1>0
<1>7. clean => \A i \in 1 .. n + 1 : u[4 + i] = p[i]
  BY <1>1, <1>5, <1>6
<1>8. \A i, j \in 1 .. n + 1 : u[4 + i] # p[i] /\ u[4 + j] # p[j] => i = j
  BY <1>1, <1>5, <1>6
<1>9. Loading(u, n + 1, p, clean)
  BY <1>3, <1>4, <1>6, <1>7, <1>8, LoadingIs
<1> QED BY <1>9 DEF u

\* One byte garbled, the first one.
LEMMA LoadingGarbled ==
  ASSUME NEW t \in Seq(Byte), NEW n \in Nat, NEW p \in Seq(Byte),
         Loading(t, n, p, TRUE), NEW i \in 5 .. Len(t), NEW b \in Noise
  PROVE  Loading(Garbled(t, i, b), n, p, FALSE)
<1>0. Len(t) = 4 + n
  BY DEF Loading
<1>1. /\ At(PUT_CODE, t, 1)
      /\ n <= Len(p)
      /\ \A j \in 1 .. n : t[4 + j] = p[j]
  BY <1>0, LoadingIs, ZenonT(60)
<1> DEFINE u == Garbled(t, i, b)
<1>2. u \in Seq(Byte) /\ Len(u) = 4 + n /\ \A j \in 1 .. 4 + n : j # i => u[j] = t[j]
  <2>1. i \in 1 .. Len(t)
    BY <1>0
  <2>2. u \in Seq(Byte) /\ Len(u) = Len(t) /\ \A j \in 1 .. Len(t) : j # i => u[j] = t[j]
    BY <2>1, FaultySeq
  <2> HIDE DEF u
  <2> QED BY <1>0, <2>2
<1> HIDE DEF u
<1>3. At(PUT_CODE, u, 1)
  <2>1. \A k \in 1 .. 4 : 1 + k - 1 \in 1 .. 4 + n /\ 1 + k - 1 # i
    OBVIOUS
  <2>2. \A k \in 1 .. 4 : u[1 + k - 1] = t[1 + k - 1]
    BY <1>2, <2>1
  <2> QED BY <1>1, <2>2 DEF At
<1>4. \A j \in 1 .. n : u[4 + j] # p[j] => 4 + j = i
  <2> TAKE j \in 1 .. n
  <2>1. 4 + j \in 1 .. 4 + n
    OBVIOUS
  <2> QED BY <1>1, <1>2, <2>1
<1>5. \A j, k \in 1 .. n : 4 + j = i /\ 4 + k = i => j = k
  OBVIOUS
<1>6. \A j, k \in 1 .. n : u[4 + j] # p[j] /\ u[4 + k] # p[k] => j = k
  BY <1>4, <1>5
<1>7. Loading(u, n, p, FALSE)
  BY <1>1, <1>2, <1>3, <1>6, LoadingIs
<1> QED BY <1>7 DEF u

\* All of it came: what the loader reads.
LEMMA LoadingEnds ==
  ASSUME NEW t \in Seq(Byte), NEW n \in Nat, NEW p \in Seq(Byte), NEW clean,
         Loading(t, n, p, clean)
  PROVE  /\ SubSeq(t, 5, 4 + n) \in Seq(Byte) /\ Len(SubSeq(t, 5, 4 + n)) = n
         /\ Nearly(SubSeq(t, 5, 4 + n), p, clean)
         /\ SubSeq(t, 5 + n, Len(t)) = << >>
<1>0. Len(t) = 4 + n
  BY DEF Loading
<1>1. SubSeq(t, 5, 4 + n) \in Seq(Byte) /\ Len(SubSeq(t, 5, 4 + n)) = n
  <2>1. 4 \in Nat /\ 4 + n <= Len(t) /\ 4 + 1 = 5
    BY <1>0
  <2>2. SubSeq(t, 4 + 1, 4 + n) \in Seq(Byte) /\ Len(SubSeq(t, 4 + 1, 4 + n)) = n
    BY <2>1, Part
  <2> QED BY <2>1, <2>2
<1>2. SubSeq(t, 5 + n, Len(t)) = << >>
  <2>1. 5 + n \in Int /\ Len(t) \in Int /\ Len(t) < 5 + n
    BY <1>0
  <2> QED BY <2>1, SubSeqEmpty
<1> QED BY <1>1, <1>2 DEF Loading

\* The checksum tells whether it is the program.
LEMMA ChecksumTells ==
  ASSUME NEW p \in Programs, NEW s \in Seq(Byte), Len(s) = Len(p), NEW clean, Nearly(s, p, clean)
  PROVE  /\ Checksum(s) = BitsOf(Sum[p]) <=> s = p
         /\ clean => s = p
<1>1. p \in Seq(Byte) /\ BitsOf(Sum[p]) = Checksum(p)
  BY ProgramsAssumption, SumIs
<1>2. clean => s = p
  BY <1>1, Same DEF Nearly
<1>3. ASSUME s # p PROVE Checksum(s) # Checksum(p)
  <2>1. PICK i \in 1 .. Len(s) : s[i] # p[i]
    BY <1>1, <1>3, Same
  <2>2. \A j \in 1 .. Len(s) : j # i => s[j] = p[j]
    BY <2>1 DEF Nearly
  <2> QED BY <1>1, <2>1, <2>2, ChangeIsNoticed
<1> QED BY <1>1, <1>2, <1>3

\* The loader and the program it was told of.
LEMMA ProgramIs ==
  TypeOK /\ Progress /\ mac # "off" =>
    /\ program \in Programs /\ program \in Seq(Byte) /\ crc = Sum[program]
    /\ crc \in [1 .. 4 -> Byte]
    /\ Len(program) \in Nat /\ Len(program) >= 1 /\ Len(program) <= MaxInt
    /\ Answer = Told(Len(program), crc)
    /\ ProgInfo = <<PUT_PROG_INFO, ARMBASE, Number(Len(program)), crc>>
BY ProgramsAssumption, LenProperties DEF Progress, TypeOK, Answer, Told, ProgInfo

\* What is said after a step is bytes.
LEMMA NotPrimed ==
  TypeOK' => Said' \in Seq(Byte) /\ Len(Said') \in Nat
<1>1. (TypeOK => Said \in Seq(Byte) /\ Len(Said) \in Nat)'
  <2>1. TypeOK => Said \in Seq(Byte) /\ Len(Said) \in Nat
    BY SaidSeq
  <2> QED BY <2>1, PTL
<1> QED BY <1>1

\* From the answer to the word boot waits for.
LEMMA SendInStep ==
  ASSUME TypeOK, TypeOK', Progress, InStep, harm' # "other",
         SendInfo \/ Drain \/ PutCode \/ PutByte \/ Wait
  PROVE  InStep'
<1>1. Said \in Seq(Byte) /\ Len(Said) \in Nat /\ toPi \in Seq(Byte)
  BY SaidSeq DEF TypeOK
<1>2. Said' \in Seq(Byte)
  BY NotPrimed
<1>3. /\ mac # "off" /\ harm' = harm /\ harm # "other" /\ pi' = pi /\ info' = info
      /\ memory' = memory /\ out' = out /\ program' = program /\ crc' = crc
      /\ started' = started
  BY DEF SendInfo, Drain, PutCode, PutByte, Wait, piVars, histVars
<1>4. /\ program \in Programs /\ program \in Seq(Byte) /\ crc \in [1 .. 4 -> Byte]
      /\ Len(program) \in Nat /\ Len(program) >= 1 /\ Len(program) <= MaxInt
      /\ Answer = Told(Len(program), crc)
      /\ ProgInfo = <<PUT_PROG_INFO, ARMBASE, Number(Len(program)), crc>>
  BY <1>3, ProgramIs
<1>5. Answer' = Answer
  BY <1>3 DEF Answer
<1>6. CASE SendInfo
  <2>1. /\ mac = "answer" /\ sent \in 0 .. 3 /\ Answered(sent) /\ Said' = Said
        /\ toPi' = toPi \o ProgInfo[sent + 1] /\ sent' = (sent + 1) % 4
        /\ mac' = IF sent' = 0 THEN "drain" ELSE "answer"
    BY <1>3, <1>6 DEF SendInfo, Progress, InStep, Said, Put32
  <2>2. /\ SubSeq(Answer, 1, 4 * sent) \o ProgInfo[sent + 1] = SubSeq(Answer, 1, 4 * (sent + 1))
        /\ sent > 0 => SubSeq(Answer, 5, 4 * sent) \o ProgInfo[sent + 1] = SubSeq(Answer, 5, 4 * (sent + 1))
    BY <1>4, <2>1, ToldGrows
  <2>3. \/ pi' = "asking" /\ toPi' = SubSeq(Answer', 1, 4 * (sent + 1))
        \/ pi' = "info" /\ sent + 1 > 0 /\ toPi' = SubSeq(Answer', 5, 4 * (sent + 1))
    <3>1. CASE pi = "asking" /\ toPi = SubSeq(Answer, 1, 4 * sent)
      BY <1>3, <1>5, <2>1, <2>2, <3>1
    <3>2. CASE pi = "info" /\ sent > 0 /\ toPi = SubSeq(Answer, 5, 4 * sent)
      <4>1. sent + 1 > 0
        BY <2>1
      <4> QED BY <1>3, <1>5, <2>1, <2>2, <3>2, <4>1
    <3> QED BY <2>1, <3>1, <3>2 DEF Answered
  <2>4. OnlyRequests(Said')
    BY <2>1 DEF Answered
  <2>5. CASE sent = 3
    <3>1. sent' = 0 /\ sent + 1 = 4
      BY <2>1, <2>5
    <3>2. mac' = "drain"
      BY <2>1, <3>1
    <3>3. Answered(4)'
      BY <2>3, <2>4, <3>1 DEF Answered
    <3> QED BY <3>2, <3>3 DEF InStep, Seeking
  <2>6. CASE sent # 3
    <3>1. sent' = sent + 1 /\ sent' # 0
      BY <2>1, <2>6
    <3>2. mac' = "answer"
      BY <2>1, <3>1
    <3>3. Answered(sent)'
      BY <2>3, <2>4, <3>1 DEF Answered
    <3> QED BY <3>2, <3>3 DEF InStep, Seeking
  <2> QED BY <2>5, <2>6
<1>7. CASE Drain
  <2>1. /\ mac = "drain" /\ toPi' = toPi /\ sent' = sent
        /\ mac' = AfterDrain(Word)
    BY <1>3, <1>7 DEF Drain
  <2>2. Len(Said) >= 4 /\ Word = SubSeq(Said, 1, 4) /\ Said' = Drop(Said, 4)
    BY <1>3, <1>7, SaidTakesWord DEF Drain
  <2>3. /\ GET_PROG_INFO # GET_CODE /\ BOOT_ERROR # GET_PROG_INFO /\ BOOT_ERROR # GET_CODE
        /\ GET_CODE \in Words /\ BOOT_ERROR \in Words
    BY DEF GET_PROG_INFO, GET_CODE, BOOT_ERROR, Words
  <2>4. Answered(4) \/ Accepted \/ TooLarge
    BY <1>3, <2>1 DEF InStep
  <2>5. CASE Answered(4)
    <3>1. OnlyRequests(Said)
      BY <2>5 DEF Answered
    <3>2. Word = GET_PROG_INFO /\ OnlyRequests(Said')
      BY <1>1, <2>2, <3>1, RequestsDropped
    <3>3. mac' = "drain"
      BY <2>1, <2>3, <3>2 DEF AfterDrain
    <3>4. Answered(4)'
      BY <1>3, <1>5, <2>1, <2>5, <3>2 DEF Answered
    <3> QED BY <3>3, <3>4 DEF InStep, Seeking
  <2>6. CASE Accepted
    <3>1. PICK n \in Nat : n = Len(Said) - 4 /\ n + 4 = Len(Said)
      <4>1. Len(Said) - 4 \in Nat /\ Len(Said) - 4 + 4 = Len(Said)
        BY <1>1, <2>2
      <4> QED BY <4>1, Zenon
    <3>2. Behind(Said, n, GET_CODE) /\ Accepts
      BY <2>6, <3>1 DEF Accepted, Follows, Behind
    <3>3. /\ n = 0 => Word = GET_CODE
          /\ n > 0 => /\ Word = GET_PROG_INFO
                      /\ n - 4 \in Nat /\ n - 4 + 4 <= Len(Said')
                      /\ Behind(Said', n - 4, GET_CODE)
      <4>1. n + 4 <= Len(Said)
        BY <1>1, <3>1
      <4> QED BY <1>1, <2>2, <2>3, <3>2, <4>1, BehindFirst
    <3>4. Len(Said') = Len(Said) - 4
      BY <1>1, <2>2, DropIs
    <3>5. Accepts'
      BY <1>3, <2>1, <3>2 DEF Accepts, KnowsProgram
    <3>6. CASE n = 0
      <4>1. Word = GET_CODE /\ Len(Said') = 0
        BY <1>1, <3>1, <3>3, <3>4, <3>6
      <4>2. mac' = "code" /\ Said' = << >>
        BY <1>2, <2>1, <2>3, <4>1, EmptySeq DEF AfterDrain
      <4> QED BY <3>5, <4>2 DEF InStep, Seeking
    <3>7. CASE n > 0
      <4>1. mac' = "drain"
        BY <2>1, <2>3, <3>3, <3>7 DEF AfterDrain
      <4>2. n - 4 = Len(Said') - 4 /\ Len(Said') >= 4
        BY <1>1, <3>1, <3>3, <3>4, <3>7
      <4>3. Follows(Len(Said) - 4, GET_CODE)'
        BY <3>3, <3>7, <4>2 DEF Follows, Behind
      <4>4. Accepted'
        BY <3>5, <4>2, <4>3 DEF Accepted
      <4> QED BY <4>1, <4>4 DEF InStep, Seeking
    <3>8. n = 0 \/ n > 0
      BY <3>1
    <3> QED BY <3>6, <3>7, <3>8
  <2>7. CASE TooLarge
    <3>1. PICK n \in 0 .. Len(Said) - 4 : Follows(n, BOOT_ERROR)
      BY <2>7 DEF TooLarge
    <3>2. n \in Nat /\ n + 4 <= Len(Said) /\ Behind(Said, n, BOOT_ERROR)
      BY <1>1, <3>1 DEF Follows, Behind
    <3>3. /\ n = 0 => Word = BOOT_ERROR
          /\ n > 0 => /\ Word = GET_PROG_INFO
                      /\ n - 4 \in Nat /\ n - 4 + 4 <= Len(Said')
                      /\ Behind(Said', n - 4, BOOT_ERROR)
      BY <1>1, <2>2, <2>3, <3>2, BehindFirst
    <3>4. CASE n = 0
      <4>1. mac' = "off"
        BY <2>1, <2>3, <3>3, <3>4 DEF AfterDrain
      <4> QED BY <4>1 DEF InStep, Seeking
    <3>5. CASE n > 0
      <4>1. mac' = "drain"
        BY <2>1, <2>3, <3>3, <3>5 DEF AfterDrain
      <4>2. PICK m \in Nat : m = n - 4 /\ m \in 0 .. Len(Said') - 4
        <5>1. Len(Said') \in Nat
          BY <1>2, LenProperties
        <5> QED BY <3>3, <3>5, <5>1
      <4>3. Follows(m, BOOT_ERROR)'
        BY <3>3, <3>5, <4>2 DEF Follows, Behind
      <4>4. TooLarge'
        BY <1>3, <2>7, <4>2, <4>3 DEF TooLarge
      <4> QED BY <4>1, <4>4 DEF InStep, Seeking
    <3> QED BY <3>2, <3>4, <3>5
  <2> QED BY <2>4, <2>5, <2>6, <2>7
<1>8. CASE PutCode
  <2>1. /\ mac = "code" /\ mac' = "bytes" /\ Said' = Said /\ sent = 0 /\ sent' = 0 /\ ~started
        /\ toPi' = toPi \o PUT_CODE
    BY <1>3, <1>8 DEF PutCode, Progress, Said, Put32
  <2>2. Accepts /\ Said = << >>
    BY <1>3, <2>1 DEF InStep
  <2>3. toPi' = PUT_CODE
    <3>1. PUT_CODE \in Seq(Byte)
      BY WordsAre DEF Words
    <3> QED BY <2>1, <2>2, <3>1, NothingSaid DEF Accepts
  <2>4. Loading(toPi', 0, program, harm = "none")
    BY <1>4, <2>3, LoadingStarts
  <2>6. KnowsProgram'
    BY <1>3, <2>2 DEF Accepts, KnowsProgram
  <2>7. Coming(0)'
    <3>1. Loading(toPi', 0, program', harm' = "none")
      BY <1>3, <2>4
    <3> QED BY <1>3, <2>1, <2>2, <2>6, <3>1, ComingIsNext DEF Accepts
  <2>8. Coming(sent)'
    BY <2>1, <2>7 DEF Coming
  <2> QED BY <2>1, <2>8 DEF InStep, Seeking
<1>9. CASE PutByte
  <2>1. /\ mac = "bytes" /\ Said' = Said /\ sent \in Nat /\ sent' = sent + 1
        /\ sent < Len(program) /\ toPi' = Append(toPi, program[sent + 1])
        /\ mac' = IF sent' = Len(program) THEN "wait" ELSE "bytes"
    BY <1>3, <1>9 DEF PutByte, Progress, Said, ToSend, TypeOK
  <2>2. Coming(sent)
    BY <1>3, <2>1 DEF InStep
  <2>3. /\ pi = "code" /\ KnowsProgram /\ Said = << >> /\ ~started
        /\ Loading(toPi, sent, program, harm = "none")
    BY <2>2, ComingIs
  <2>4. Loading(toPi', sent + 1, program, harm = "none")
    <3>1. PICK n, clean : n = sent /\ clean = (harm = "none")
      OBVIOUS
    <3>2. Loading(Append(toPi, program[n + 1]), n + 1, program, clean)
      BY <1>1, <1>4, <2>1, <2>3, <3>1, LoadingGoesOn
    <3> QED BY <2>1, <3>1, <3>2
  <2>5. KnowsProgram'
    BY <1>3, <2>3 DEF KnowsProgram
  <2>6. Coming(sent)'
    <3>1. PICK n : n = sent + 1 /\ n = sent'
      BY <2>1
    <3>2. Loading(toPi', n, program', harm' = "none")
      BY <1>3, <2>4, <3>1
    <3>3. Coming(n)'
      BY <1>3, <2>1, <2>3, <2>5, <3>2, ComingIsNext
    <3> QED BY <3>1, <3>3 DEF Coming
  <2>7. CASE sent' = Len(program)
    <3>1. Coming(Len(program))'
      <4>1. sent' = Len(program')
        BY <1>3, <2>7
      <4> QED BY <2>6, <4>1 DEF Coming
    <3> QED BY <2>1, <2>7, <3>1 DEF InStep, Seeking
  <2>8. CASE sent' # Len(program)
    BY <2>1, <2>6, <2>8 DEF InStep, Seeking
  <2> QED BY <2>7, <2>8
<1>10. CASE Wait
  <2>1. /\ mac = "wait" /\ toPi' = toPi /\ mac' = AfterWait(Word)
    BY <1>3, <1>10 DEF Wait
  <2>2. Len(Said) >= 4 /\ Word = SubSeq(Said, 1, 4) /\ Said' = Drop(Said, 4)
    BY <1>3, <1>10, SaidTakesWord DEF Wait
  <2>3. Said # << >>
    BY <1>1, <2>2, EmptySeq
  <2>4. Runs(BOOT_SUCCESS) \/ Noticed
    <3>1. Coming(Len(program)) \/ Came \/ Runs(BOOT_SUCCESS) \/ Noticed
      BY <1>3, <2>1 DEF InStep
    <3>2. ~ Coming(Len(program)) /\ ~ Came
      BY <2>3 DEF Coming, Came
    <3> QED BY <3>1, <3>2
  <2>5. BOOT_SUCCESS \in Words /\ Len(BOOT_SUCCESS) = 4
    BY WordsAre DEF Words
  <2>6. CASE Runs(BOOT_SUCCESS)
    <3>1. Len(Said) = 4 /\ Said = BOOT_SUCCESS
      BY <2>5, <2>6 DEF Runs
    <3>2. Word = BOOT_SUCCESS
      <4>1. SubSeq(Said, 1, Len(Said)) = Said
        BY <1>1, SubSeqFull
      <4> QED BY <2>2, <3>1, <4>1
    <3>3. Said' = << >>
      <4>1. Len(Said') = 0
        <5>1. 4 \in Nat /\ 4 <= Len(Said) /\ Len(Said) - 4 = 0
          BY <3>1
        <5> QED BY <1>1, <2>2, <5>1, DropIs
      <4> QED BY <1>2, <4>1, EmptySeq
    <3>4. mac' = "booted"
      BY <2>1, <3>2 DEF AfterWait
    <3>5. Runs(<< >>)'
      BY <1>3, <2>1, <2>6, <3>3 DEF Runs
    <3> QED BY <3>4, <3>5 DEF InStep, Seeking
  <2>7. CASE Noticed
    <3>1. Word # BOOT_SUCCESS
      <4> SUFFICES ASSUME Word = BOOT_SUCCESS PROVE FALSE
        OBVIOUS
      <4>1. At(BOOT_SUCCESS, Said, 1)
        BY <1>1, <2>2, <2>5, AtFirst
      <4>2. 1 \in 1 .. Len(Said) - 3
        BY <1>1, <2>2
      <4> QED BY <2>7, <4>1, <4>2 DEF Noticed, Occurs
    <3>2. mac' \in {"off", "wait"}
      BY <2>1, <3>1 DEF AfterWait
    <3>3. ~ Occurs(BOOT_SUCCESS, Said')
      BY <1>1, <2>2, <2>7, OccursNotDropped DEF Noticed
    <3>4. Noticed'
      BY <1>3, <2>1, <2>7, <3>3 DEF Noticed
    <3> QED BY <3>2, <3>4 DEF InStep, Seeking
  <2> QED BY <2>4, <2>6, <2>7
<1> QED BY <1>6, <1>7, <1>8, <1>9, <1>10

\* Nothing that the loader says but its requests is a request to boot.
LEMMA StillNoOldRequest ==
  ASSUME TypeOK, TypeOK', NoOldRequest, ~ (pi = "asking" /\ toPi = << >>), op' = op,
         NEW t \in Speech, Said' = Said \o t
  PROVE  NoOldRequest'
<1>1. /\ Said \in Seq(Byte) /\ op \in Seq(Byte) /\ op \o Said \in Seq(Byte)
  BY SaidSeq
<1>2. ~ Old(op \o Said, FALSE)
  <2>1. (pi = "asking" /\ toPi = << >>) = FALSE
    OBVIOUS
  <2> QED BY <2>1 DEF NoOldRequest
<1>3. ~ Occurs(GET_PROG_INFO, op \o Said)
  BY <1>2, OldNever
<1>4. t \in Seq(Byte) /\ ~ Occurs(GET_PROG_INFO, (op \o Said) \o t)
  BY <1>1, <1>3, SpeechAsksNothing
<1>5. (op \o Said) \o t = op' \o Said'
  BY <1>1, <1>4, ConcatAssociative, SMTT(30)
<1> QED BY <1>4, <1>5, OldNever DEF NoOldRequest

\* What was said stays so when more is.
LEMMA StillTooLarge ==
  ASSUME TypeOK, TooLarge, program' = program, NEW t \in Seq(Byte), Said' = Said \o t
  PROVE  TooLarge'
<1>1. Said \in Seq(Byte) /\ Len(Said) \in Nat
  BY SaidSeq
<1>2. PICK n \in 0 .. Len(Said) - 4 : Follows(n, BOOT_ERROR)
  BY DEF TooLarge
<1>3. n \in Nat /\ n + 4 <= Len(Said) /\ Behind(Said, n, BOOT_ERROR) /\ BOOT_ERROR \in Words
  BY <1>1, <1>2 DEF Follows, Behind, Words
<1>4. n + 4 <= Len(Said') /\ Behind(Said', n, BOOT_ERROR)
  BY <1>1, <1>3, BehindJoined
<1>5. n \in 0 .. Len(Said') - 4 /\ Follows(n, BOOT_ERROR)'
  <2>1. Len(Said') \in Nat
    BY <1>1, Joined
  <2> QED BY <1>3, <1>4, <2>1 DEF Follows, Behind
<1> QED BY <1>5 DEF TooLarge

\* What the loader says is what it puts.
LEMMA SaidMore ==
  ASSUME TypeOK, out = << >>, toMac' = toMac
  PROVE  Said' = Said \o out' /\ Said = toMac
<1>1. toMac \in Seq(Byte)
  BY DEF TypeOK
<1>2. toMac \o << >> = toMac
  BY <1>1, NothingSaid
<1> QED BY <1>2 DEF Said

\* The loader starts, prints and asks.
LEMMA AskInStep ==
  ASSUME TypeOK, TypeOK', Progress, InStep, harm' # "other", PiPuts \/ Greet \/ Ask \/ PowerOn
  PROVE  InStep'
<1>1. Said \in Seq(Byte) /\ Len(Said) \in Nat /\ op \in Seq(Byte) /\ op \o Said \in Seq(Byte)
  BY SaidSeq
<1>2. /\ mac' = mac /\ program' = program /\ crc' = crc /\ op' = op /\ sent' = sent
      /\ harm' = harm /\ harm # "other" /\ info' = info /\ memory' = memory /\ started' = started
  BY DEF PiPuts, Greet, Ask, PowerOn, macVars, histVars
<1>3. NoOldRequest' => ~ OldRequest(op \o Said)'
  <2>1. (TypeOK => (NoOldRequest <=> ~ OldRequest(op \o Said)))'
    BY NoOldRequestIs, PTL
  <2> QED BY <2>1
<1>4. mac \in Seeking => NoOldRequest
  BY <1>2, NoOldRequestIs DEF InStep
<1>5. Answer' = Answer
  BY <1>2 DEF Answer
<1>6. CASE PiPuts
  <2>1. Said' = Said
    <3>1. Said' = (toMac \o out) \o << >>
      BY <1>6 DEF Said, PiPuts
    <3> QED BY <1>1, <3>1, NothingSaid DEF Said
  <2>2. pi' = pi /\ toPi' = toPi
    BY <1>6 DEF PiPuts
  <2>3. NoOldRequest' <=> NoOldRequest
    BY <1>2, <2>1, <2>2 DEF NoOldRequest
  <2>4. mac' \in Seeking => ~ OldRequest(op \o Said)'
    BY <1>2, <1>3, <1>4, <2>3
  <2>5. \A n : Answered(n)' <=> Answered(n)
    BY <1>5, <2>1, <2>2 DEF Answered
  <2>6. /\ Accepts' <=> Accepts
        /\ Accepted' <=> Accepted
        /\ TooLarge' <=> TooLarge
    BY <1>2, <2>1, <2>2 DEF Accepts, Accepted, KnowsProgram, TooLarge, Follows
  <2>7. \A n : Coming(n)' <=> Coming(n)
    BY <1>2, <2>1, <2>2 DEF Coming, KnowsProgram, NearlyProgram
  <2>8. Came' <=> Came
    BY <1>2, <2>1, <2>2 DEF Came, KnowsProgram, NearlyProgram
  <2>9. \A w : Runs(w)' <=> Runs(w)
    BY <1>2, <2>1, <2>2 DEF Runs
  <2>10. Noticed' <=> Noticed
    BY <1>2, <2>1, <2>2 DEF Noticed
  <2>11. mac' = "answer" => Answered(sent)'
    BY <1>2, <2>5 DEF InStep, Answered
  <2>12. mac' = "bytes" => Coming(sent)'
    <3>1. Coming(sent)' <=> Coming(sent)
      BY <1>2, <2>1, <2>2 DEF Coming, KnowsProgram, NearlyProgram
    <3> QED BY <1>2, <3>1 DEF InStep
  <2>13. mac' = "wait" => Coming(Len(program))' \/ Came' \/ Runs(BOOT_SUCCESS)' \/ Noticed'
    <3>1. Coming(Len(program))' <=> Coming(Len(program))
      BY <1>2, <2>1, <2>2 DEF Coming, KnowsProgram, NearlyProgram
    <3> QED BY <1>2, <2>8, <2>9, <2>10, <3>1 DEF InStep
  <2> QED BY <1>2, <2>1, <2>4, <2>5, <2>6, <2>9, <2>11, <2>12, <2>13 DEF InStep
<1>7. CASE Greet
  <2>1. /\ pi = "greeting" /\ pi' = "asking" /\ toPi' = toPi /\ out = << >> /\ out' \in Speech
        /\ toMac' = toMac
    BY <1>7 DEF Greet, Speech, lines
  <2>2. Said' = Said \o out' /\ out' \in Seq(Byte)
    BY <2>1, SaidMore, SpeechSeq
  <2>3. mac' \in Seeking => ~ OldRequest(op \o Said)'
    BY <1>2, <1>3, <1>4, <2>1, <2>2, StillNoOldRequest
  <2>4. mac \notin {"answer", "code", "bytes", "booted"}
    BY <1>2, <2>1 DEF InStep, Answered, Accepts, Coming, Runs
  <2>5. mac = "drain" => TooLarge'
    <3>1. mac = "drain" => TooLarge
      BY <1>2, <2>1 DEF InStep, Answered, Accepted, Accepts
    <3> QED BY <1>2, <2>2, <3>1, StillTooLarge
  <2>6. mac = "wait" => Noticed'
    <3> SUFFICES ASSUME mac = "wait" PROVE Noticed'
      OBVIOUS
    <3>1. Noticed
      BY <1>2, <2>1 DEF InStep, Coming, Came, Runs
    <3>2. ~ Occurs(BOOT_SUCCESS, Said')
      <4>1. CASE out' = << >>
        BY <1>1, <2>2, <3>1, <4>1, NothingSaid DEF Noticed
      <4>2. CASE out' # << >>
        <5>1. PICK t \in Texts : out' = Printed(t)
          BY <1>7, <4>2 DEF Greet
        <5>2. /\ Len(out') >= 2 /\ out'[1] = 238 /\ out'[2] = 238
              /\ ~ Occurs(BOOT_SUCCESS, out')
          <6>1. Len(Printed(t)) >= 2
            BY PrintedIs, LenProperties
          <6> QED BY <5>1, <6>1, PrintedIs
        <5>3. BOOT_SUCCESS[3] = 153 /\ BOOT_SUCCESS[4] = 153
          BY DEF BOOT_SUCCESS
        <5>4. BOOT_SUCCESS[3] = BOOT_SUCCESS[4] /\ out'[1] # BOOT_SUCCESS[3] /\ out'[2] # BOOT_SUCCESS[3]
          BY <5>2, <5>3
        <5> QED BY <1>1, <2>2, <3>1, <5>2, <5>4, OccursNotJoined DEF Noticed
      <4> QED BY <4>1, <4>2
    <3> QED BY <1>2, <2>1, <3>1, <3>2 DEF Noticed
  <2> QED BY <1>2, <2>3, <2>4, <2>5, <2>6 DEF InStep
<1>8. CASE Ask
  <2>1. /\ pi = "asking" /\ pi' = "asking" /\ toPi = << >> /\ toPi' = << >> /\ out = << >>
        /\ toMac' = toMac /\ out' = GET_PROG_INFO
    BY <1>8 DEF Ask, lines
  <2>2. Said' = Said \o GET_PROG_INFO /\ GET_PROG_INFO \in Seq(Byte)
    BY <2>1, SaidMore, SpeechSeq
  <2>3. mac' \in Seeking => ~ OldRequest(op \o Said)'
    <3> SUFFICES ASSUME mac \in Seeking PROVE NoOldRequest'
      BY <1>2, <1>3
    <3>1. (pi = "asking" /\ toPi = << >>) = TRUE /\ (pi' = "asking" /\ toPi' = << >>) = TRUE
      BY <2>1
    <3>2. ~ Old(op \o Said, TRUE)
      BY <1>4, <3>1 DEF NoOldRequest
    <3>3. ~ Old((op \o Said) \o GET_PROG_INFO, TRUE)
      BY <1>1, <3>2, NotOldAsked
    <3>4. (op \o Said) \o GET_PROG_INFO = op' \o Said'
      BY <1>1, <1>2, <2>2, ConcatAssociative, SMTT(30)
    <3> QED BY <3>1, <3>3, <3>4 DEF NoOldRequest
  <2>4. mac \notin {"code", "bytes", "booted"}
    BY <1>2, <2>1 DEF InStep, Accepts, Coming, Runs
  <2>5. mac' = "answer" => Answered(sent)'
    <3> SUFFICES ASSUME mac = "answer" PROVE Answered(sent)'
      BY <1>2
    <3>1. Answered(sent)
      BY <1>2 DEF InStep
    <3>2. OnlyRequests(Said')
      BY <1>1, <2>2, <3>1, RequestsJoined DEF Answered
    <3> QED BY <1>2, <1>5, <2>1, <3>1, <3>2 DEF Answered
  <2>6. mac = "drain" => TooLarge'
    <3> SUFFICES ASSUME mac = "drain" PROVE TooLarge
      BY <1>2, <2>2, StillTooLarge
    <3>1. ~ Answered(4)
      <4>1. Answer = Told(Len(program), crc) /\ Len(program) \in Nat /\ Len(program) <= MaxInt /\ crc \in [1 .. 4 -> Byte]
        BY ProgramIs
      <4>2. 4 \in 0 .. 4 /\ 4 * 4 = 16
        OBVIOUS
      <4>3. Len(SubSeq(Answer, 1, 4 * 4)) = 4 * 4
        BY <4>1, <4>2, ToldPart
      <4>4. Len(toPi) = 0
        BY <2>1
      <4> QED BY <2>1, <4>2, <4>3, <4>4 DEF Answered
    <3> QED BY <1>2, <2>1, <3>1 DEF InStep, Accepted, Accepts
  <2>7. mac = "wait" => Noticed'
    <3> SUFFICES ASSUME mac = "wait" PROVE Noticed'
      OBVIOUS
    <3>1. Noticed
      BY <1>2, <2>1 DEF InStep, Coming, Came, Runs
    <3>2. ~ Occurs(BOOT_SUCCESS, Said')
      <4> DEFINE g == GET_PROG_INFO
                 b == BOOT_SUCCESS
      <4>1. g \in Words /\ b \in Words /\ g # b /\ g \in Seq(Byte) /\ Len(g) = 4
        BY WordsAre DEF Words, GET_PROG_INFO, BOOT_SUCCESS
      <4>2. b[3] = b[4] /\ g[1] # b[3] /\ g[2] # b[3]
        BY DEF GET_PROG_INFO, BOOT_SUCCESS
      <4>3. ~ Occurs(b, Said)
        BY <3>1 DEF Noticed
      <4>4. Said' = Said \o g
        BY <2>2
      <4> HIDE DEF g, b
      <4>5. ~ Occurs(b, g)
        BY <4>1, WordsApart
      <4>6. Len(g) >= 2
        BY <4>1
      <4>7. ~ Occurs(b, Said')
        BY <1>1, <4>1, <4>2, <4>3, <4>4, <4>5, <4>6, OccursNotJoined
      <4> QED BY <4>7 DEF b
    <3> QED BY <1>2, <2>1, <3>1, <3>2 DEF Noticed
  <2> QED BY <1>2, <2>3, <2>4, <2>5, <2>6, <2>7 DEF InStep
<1>9. CASE PowerOn
  <2>1. /\ pi = "off" /\ pi' = "greeting" /\ Said' = Said
    BY <1>9 DEF PowerOn, Said
  <2>2. mac' \in Seeking => ~ OldRequest(op \o Said)'
    <3>1. << >> \in Speech /\ Said' = Said \o << >>
      BY <1>1, <2>1, NothingSaid DEF Speech
    <3> QED BY <1>2, <1>3, <1>4, <2>1, <3>1, StillNoOldRequest
  <2>3. mac \notin {"answer", "code", "bytes", "booted", "wait"}
    BY <1>2, <2>1 DEF InStep, Answered, Accepts, Coming, Runs, Came, Noticed
  <2>4. mac = "drain" => TooLarge'
    <3>1. mac = "drain" => TooLarge
      BY <1>2, <2>1 DEF InStep, Answered, Accepted, Accepts
    <3> QED BY <1>2, <2>1, <3>1 DEF TooLarge, Follows
  <2> QED BY <1>2, <2>2, <2>3, <2>4 DEF InStep
<1> QED BY <1>6, <1>7, <1>8, <1>9

\* The loader reads the answer and the program, and checks it.
LEMMA ReadInStep ==
  ASSUME TypeOK, TypeOK', Progress, Loader, InStep, harm' # "other",
         ReadRequest \/ ReadInfo \/ ReadCode \/ CheckCode
  PROVE  InStep'
<1>1. /\ Said \in Seq(Byte) /\ Len(Said) \in Nat /\ toPi \in Seq(Byte) /\ Len(toPi) \in Nat
  BY SaidSeq, LenProperties DEF TypeOK
<1>2. /\ mac' = mac /\ program' = program /\ crc' = crc /\ op' = op /\ sent' = sent
      /\ harm' = harm /\ harm # "other" /\ toMac' = toMac
  BY DEF ReadRequest, ReadInfo, ReadCode, CheckCode, macVars, histVars, lines
<1>3. NoOldRequest' => ~ OldRequest(op \o Said)'
  <2>1. (TypeOK => (NoOldRequest <=> ~ OldRequest(op \o Said)))'
    BY NoOldRequestIs, PTL
  <2> QED BY <2>1
<1>4. mac \in Seeking => NoOldRequest
  BY <1>2, NoOldRequestIs DEF InStep
<1>5. Answer' = Answer
  BY <1>2 DEF Answer
<1>6. out = << >> /\ pi \in {"asking", "info", "code", "check"} /\ (pi = "asking" => toPi # << >>)
  <2>1. Len(<< >>) = 0
    OBVIOUS
  <2> QED BY <2>1 DEF ReadRequest, ReadInfo, ReadCode, CheckCode, Loader
<1>7. out' \in Speech /\ out' \in Seq(Byte) /\ Said' = Said \o out' /\ Said = toMac
  <2>1. out' \in Speech
    BY <1>6 DEF ReadRequest, ReadInfo, ReadCode, CheckCode, Rejects, Speech
  <2> QED BY <1>2, <1>6, <2>1, SaidMore, SpeechSeq
<1>8. mac' \in Seeking => ~ OldRequest(op \o Said)'
  BY <1>2, <1>3, <1>4, <1>6, <1>7, StillNoOldRequest
<1>9. TooLarge => TooLarge'
  BY <1>2, <1>7, StillTooLarge
<1>10. mac # "off" => /\ program \in Programs /\ program \in Seq(Byte) /\ crc = Sum[program]
                     /\ crc \in [1 .. 4 -> Byte]
                     /\ Len(program) \in Nat /\ Len(program) <= MaxInt
                     /\ Answer = Told(Len(program), crc)
  BY ProgramIs
<1>11. mac # "booted"
  BY <1>2, <1>6 DEF InStep, Runs
<1>12. mac # "code"
  <2> SUFFICES ASSUME mac = "code" PROVE FALSE
    OBVIOUS
  <2>1. pi = "code" /\ toPi = << >> /\ info.size = Len(program) /\ Len(toPi) = 0
    BY <1>2 DEF InStep, Accepts, KnowsProgram
  <2>2. Len(toPi) >= 4 + info.size
    BY <2>1 DEF ReadRequest, ReadInfo, ReadCode, CheckCode
  <2>3. Len(program) \in Nat
    BY <1>10
  <2> QED BY <2>1, <2>2, <2>3
<1>13. mac # "bytes"
  <2> SUFFICES ASSUME mac = "bytes" PROVE FALSE
    OBVIOUS
  <2>1. pi = "code" /\ info.size = Len(program) /\ Len(toPi) = 4 + sent /\ sent < Len(program)
    BY <1>2 DEF InStep, Coming, KnowsProgram, Progress
  <2>2. Len(toPi) >= 4 + info.size
    BY <2>1 DEF ReadRequest, ReadInfo, ReadCode, CheckCode
  <2>3. sent \in Nat /\ Len(program) \in Nat
    BY <1>10 DEF TypeOK
  <2> QED BY <2>1, <2>2, <2>3
<1> DEFINE P(k) == SubSeq(Answer, 1, 4 * k)
           R(k) == SubSeq(Answer, 5, 4 * k)
<1>14. ASSUME mac # "off", NEW k \in 0 .. 4
       PROVE  /\ P(k) \in Seq(Byte) /\ Len(P(k)) = 4 * k
              /\ k > 0 => /\ SubSeq(P(k), 1, 4) = PUT_PROG_INFO
                          /\ SubSeq(P(k), 5, 4 * k) = R(k)
                          /\ R(k) \in Seq(Byte) /\ Len(R(k)) = 4 * k - 4
  <2> DEFINE a == Told(Len(program), crc)
  <2>1. /\ SubSeq(a, 1, 4 * k) \in Seq(Byte) /\ Len(SubSeq(a, 1, 4 * k)) = 4 * k
        /\ k > 0 => /\ SubSeq(SubSeq(a, 1, 4 * k), 1, 4) = PUT_PROG_INFO
                    /\ SubSeq(SubSeq(a, 1, 4 * k), 5, 4 * k) = SubSeq(a, 5, 4 * k)
                    /\ SubSeq(a, 5, 4 * k) \in Seq(Byte)
                    /\ Len(SubSeq(a, 5, 4 * k)) = 4 * k - 4
    <3>1. PICK n \in Nat : n = Len(program) /\ n <= MaxInt
      BY <1>10, <1>14
    <3>2. crc \in [1 .. 4 -> Byte]
      BY <1>10, <1>14
    <3> QED BY <1>14, <3>1, <3>2, ToldPart
  <2>2. Answer = a
    BY <1>10, <1>14
  <2> HIDE DEF a
  <2> QED BY <2>1, <2>2
<1>15. CASE ReadRequest
  <2>1. /\ pi = "asking" /\ Len(toPi) >= 4 /\ toPi' = SubSeq(toPi, 5, Len(toPi)) /\ memory' = memory
    BY <1>15 DEF ReadRequest
  <2>2. ASSUME mac # "off", NEW k \in 0 .. 4, Answered(k) PROVE Answered(k)'
    <3>1. toPi = P(k) /\ OnlyRequests(Said)
      BY <2>1, <2>2 DEF Answered
    <3>2. Len(P(k)) = 4 * k
      BY <1>14, <2>2
    <3>3. k > 0
      BY <2>1, <3>1, <3>2
    <3>4. SubSeq(toPi, 1, 4) = PUT_PROG_INFO /\ toPi' = R(k)
      BY <1>14, <2>1, <2>2, <3>1, <3>2, <3>3
    <3>5. pi' = "info" /\ out' = out
      BY <1>15, <3>4 DEF ReadRequest
    <3>6. Said' = Said
      BY <1>2, <3>5 DEF Said
    <3> QED BY <1>5, <3>1, <3>3, <3>4, <3>5, <3>6 DEF Answered
  <2>3. mac' = "answer" => Answered(sent)'
    <3> SUFFICES ASSUME mac = "answer" PROVE Answered(sent)'
      BY <1>2
    <3>1. PICK k \in 0 .. 4 : k = sent
      BY DEF Progress
    <3>2. Answered(k)
      BY <1>2, <3>1 DEF InStep
    <3>3. Answered(k)'
      BY <2>2, <3>2
    <3> QED BY <1>2, <3>1, <3>3 DEF Answered
  <2>4. mac' = "drain" => Answered(4)' \/ TooLarge'
    <3>1. mac = "drain" => Answered(4) \/ TooLarge
      BY <1>2, <2>1 DEF InStep, Accepted, Accepts
    <3>2. mac = "drain" /\ Answered(4) => Answered(4)'
      <4>1. 4 \in 0 .. 4
        OBVIOUS
      <4> QED BY <2>2, <4>1
    <3> QED BY <1>2, <1>9, <3>1, <3>2
  <2>5. mac # "wait"
    BY <1>2, <1>6, <2>1 DEF InStep, Coming, Came, Runs, Noticed
  <2> QED BY <1>2, <1>8, <1>11, <1>12, <1>13, <2>3, <2>4, <2>5 DEF InStep
<1>16. CASE ReadInfo
  <2>1. pi = "info" /\ Len(toPi) >= 12 /\ toPi' = SubSeq(toPi, 13, Len(toPi))
    BY <1>16 DEF ReadInfo
  <2>2. mac # "answer"
    <3> SUFFICES ASSUME mac = "answer" PROVE FALSE
      OBVIOUS
    <3>1. PICK k \in 0 .. 4 : k = sent /\ k <= 3
      BY DEF Progress
    <3>2. toPi = R(k) /\ k > 0
      BY <1>2, <2>1, <3>1 DEF InStep, Answered
    <3>3. Len(R(k)) = 4 * k - 4
      BY <1>14, <3>2
    <3> QED BY <2>1, <3>1, <3>2, <3>3
  <2>3. mac = "drain" => Accepted' \/ TooLarge'
    <3> SUFFICES ASSUME mac = "drain", Answered(4) PROVE Accepted' \/ TooLarge'
      BY <1>2, <1>9, <2>1 DEF InStep, Accepted, Accepts
    <3>1. toPi = SubSeq(Told(Len(program), crc), 5, 16) /\ OnlyRequests(Said)
      <4>1. 4 * 4 = 16
        OBVIOUS
      <4> QED BY <1>10, <2>1, <4>1 DEF Answered
    <3>2. /\ SubSeq(toPi, 1, 4) = ARMBASE /\ SubSeq(toPi, 5, 8) = Number(Len(program))
          /\ SubSeq(toPi, 9, 12) = crc /\ toPi' = << >>
      BY <1>10, <2>1, <3>1, ToldRest
    <3>3. PICK n \in Nat : n = Len(program)
      BY <1>10
    <3>4. PICK v \in Nat : v = Value(SubSeq(toPi, 5, 8)) /\ v = IF n < 65536 THEN n ELSE 65536
      <4>1. Value(Number(n)) = IF n < 65536 THEN n ELSE 65536
        BY <1>10, <3>3, NumberIs
      <4>2. (IF n < 65536 THEN n ELSE 65536) \in Nat
        BY SMT
      <4>3. Value(SubSeq(toPi, 5, 8)) = Value(Number(n))
        BY <3>2, <3>3
      <4> QED BY <4>1, <4>2, <4>3, SMT
    <3>5. MaxSize \in Nat /\ MaxSize < 65536
      BY BoundsAssumption, SMTT(30)
    <3>6. v <= MaxSize => v = n
      BY <3>4, <3>5, SMT
    <3>7. v > MaxSize => n > MaxSize
      BY <3>4, <3>5, SMT
    <3>8. CASE Acceptable
      <4>1. v <= MaxSize
        BY <3>4, <3>8 DEF Acceptable
      <4>2. /\ info' = [size |-> Value(SubSeq(toPi, 5, 8)), crc |-> SubSeq(toPi, 9, 12)]
            /\ out' = GET_CODE /\ pi' = "code"
        BY <1>16, <3>8 DEF ReadInfo
      <4>3. Accepts'
        BY <1>2, <3>2, <3>3, <3>4, <3>6, <4>1, <4>2 DEF Accepts, KnowsProgram
      <4>4. Said' = Said \o GET_CODE /\ GET_CODE \in Words
        BY <1>7, <4>2 DEF Words
      <4>5. Len(Said') = Len(Said) + 4 /\ Behind(Said', Len(Said), GET_CODE)
        BY <1>1, <3>1, <4>4, BehindLast
      <4>6. Len(Said') >= 4 /\ Len(Said') - 4 = Len(Said)
        BY <1>1, <4>5
      <4>7. Follows(Len(Said) - 4, GET_CODE)'
        BY <4>5, <4>6 DEF Follows, Behind
      <4> QED BY <4>3, <4>6, <4>7 DEF Accepted
    <3>9. CASE ~Acceptable
      <4>1. v > MaxSize
        BY <3>2, <3>4, <3>5, <3>9 DEF Acceptable
      <4>2. out' = BOOT_ERROR
        BY <1>16, <3>9 DEF ReadInfo, Rejects
      <4>3. Said' = Said \o BOOT_ERROR /\ BOOT_ERROR \in Words
        BY <1>7, <4>2 DEF Words
      <4>4. Len(Said') = Len(Said) + 4 /\ Behind(Said', Len(Said), BOOT_ERROR)
        BY <1>1, <3>1, <4>3, BehindLast
      <4>5. PICK m \in 0 .. Len(Said') - 4 : m = Len(Said)
        BY <1>1, <4>4
      <4>6. Follows(m, BOOT_ERROR)'
        BY <4>4, <4>5 DEF Follows, Behind
      <4>7. Len(program') > MaxSize
        BY <1>2, <3>3, <3>7, <4>1
      <4> QED BY <4>6, <4>7 DEF TooLarge
    <3> QED BY <3>8, <3>9
  <2>4. mac # "wait"
    BY <1>2, <1>6, <2>1 DEF InStep, Coming, Came, Runs, Noticed
  <2> QED BY <1>2, <1>8, <1>11, <1>12, <1>13, <2>2, <2>3, <2>4 DEF InStep
<1>17. CASE ReadCode
  <2>1. /\ pi = "code" /\ toPi' = SubSeq(toPi, 5 + info.size, Len(toPi))
        /\ Len(toPi) >= 4 + info.size /\ started' = started
    BY <1>17 DEF ReadCode, histVars
  <2>2. mac # "answer"
    BY <1>2, <2>1 DEF InStep, Answered
  <2>3. mac' = "drain" => TooLarge'
    <3> SUFFICES ASSUME mac = "drain" PROVE TooLarge
      BY <1>2, <1>9
    <3>1. ~ Accepts
      <4> SUFFICES ASSUME Accepts PROVE FALSE
        OBVIOUS
      <4>1. toPi = << >> /\ info.size = Len(program) /\ Len(toPi) = 0
        BY DEF Accepts, KnowsProgram
      <4> QED BY <1>10, <2>1, <4>1
    <3> QED BY <1>2, <2>1, <3>1 DEF InStep, Answered, Accepted
  <2>4. mac' = "wait" => Came'
    <3> SUFFICES ASSUME mac = "wait" PROVE Came'
      BY <1>2
    <3>1. Coming(Len(program))
      BY <1>2, <2>1 DEF InStep, Came, Runs, Noticed
    <3>2. PICK n \in Nat : n = Len(program)
      BY <1>10
    <3>3. /\ KnowsProgram /\ Said = << >> /\ ~started
          /\ Loading(toPi, n, program, harm = "none")
      BY <3>1, <3>2, ComingIs
    <3>4. info.size = n
      BY <3>2, <3>3 DEF KnowsProgram
    <3>5. SubSeq(toPi, 1, 4) = PUT_CODE
      BY <3>3 DEF Loading
    <3>6. /\ memory' = SubSeq(toPi, 5, 4 + n) /\ pi' = "check" /\ out' = out /\ info' = info
      BY <1>17, <3>4, <3>5 DEF ReadCode
    <3>7. Len(SubSeq(toPi, 5, 4 + n)) = n /\ Nearly(SubSeq(toPi, 5, 4 + n), program, harm = "none")
          /\ SubSeq(toPi, 5 + n, Len(toPi)) = << >>
      BY <1>1, <1>10, <3>3, LoadingEnds
    <3>8. toPi' = << >>
      BY <2>1, <3>4, <3>7
    <3>9. NearlyProgram(memory)'
      BY <1>2, <3>6, <3>7 DEF NearlyProgram, Nearly
    <3>10. Said' = << >>
      BY <1>2, <3>3, <3>6 DEF Said
    <3>11. KnowsProgram'
      BY <1>2, <3>3, <3>6 DEF KnowsProgram
    <3>12. Len(memory') = Len(program')
      BY <1>2, <3>2, <3>6, <3>7
    <3> QED BY <2>1, <3>3, <3>6, <3>8, <3>9, <3>10, <3>11, <3>12 DEF Came
  <2> QED BY <1>2, <1>8, <1>11, <1>12, <1>13, <2>2, <2>3, <2>4 DEF InStep
<1>18. CASE CheckCode
  <2>1. pi = "check" /\ toPi' = toPi
    BY <1>18 DEF CheckCode, lines
  <2>2. mac # "answer"
    BY <1>2, <2>1 DEF InStep, Answered
  <2>3. mac' = "drain" => TooLarge'
    BY <1>2, <1>9, <2>1 DEF InStep, Answered, Accepted, Accepts
  <2>4. mac' = "wait" => Runs(BOOT_SUCCESS)' \/ Noticed'
    <3> SUFFICES ASSUME mac = "wait" PROVE Runs(BOOT_SUCCESS)' \/ Noticed'
      BY <1>2
    <3>1. Came
      BY <1>2, <2>1 DEF InStep, Coming, Runs, Noticed
    <3>2. /\ program \in Programs /\ program \in Seq(Byte) /\ crc = Sum[program]
          /\ memory \in Seq(Byte) /\ Len(memory) = Len(program)
      BY <1>10, <3>1 DEF Came, TypeOK
    <3>3. PICK clean : clean = (harm = "none")
      OBVIOUS
    <3>4. Nearly(memory, program, clean)
      BY <3>1, <3>3 DEF Came, NearlyProgram, Nearly
    <3>5. /\ Checksum(memory) = BitsOf(Sum[program]) <=> memory = program
          /\ clean => memory = program
      BY <3>2, <3>4, ChecksumTells
    <3>6. CodeIsGood <=> memory = program
      BY <3>1, <3>2, <3>5 DEF CodeIsGood, Came, KnowsProgram
    <3>7. Said = << >> /\ toPi = << >>
      BY <3>1 DEF Came
    <3>8. Said' = out'
      BY <1>7, <3>7, NothingSaid
    <3>9. CASE CodeIsGood
      <4>1. /\ out' = BOOT_SUCCESS /\ pi' = "running" /\ memory' = memory
            /\ started' = (started \/ (mac = "wait" /\ memory = program))
        BY <1>18, <3>9 DEF CheckCode
      <4>2. started'
        BY <3>6, <3>9, <4>1
      <4> QED BY <1>2, <2>1, <3>6, <3>7, <3>8, <3>9, <4>1, <4>2 DEF Runs
    <3>10. CASE ~CodeIsGood
      <4>1. out' = BOOT_ERROR /\ pi' = "greeting"
        BY <1>18, <3>10 DEF CheckCode, Rejects
      <4>2. harm = "byte"
        BY <1>2, <3>3, <3>5, <3>6, <3>10 DEF TypeOK
      <4>3. ~ Occurs(BOOT_SUCCESS, BOOT_ERROR)
        <5>1. BOOT_SUCCESS \in Words /\ BOOT_ERROR \in Words /\ BOOT_SUCCESS # BOOT_ERROR
          BY DEF Words, BOOT_SUCCESS, BOOT_ERROR
        <5> QED BY <5>1, WordsApart
      <4> QED BY <1>2, <2>1, <3>7, <3>8, <4>1, <4>2, <4>3 DEF Noticed
    <3> QED BY <3>9, <3>10
  <2> QED BY <1>2, <1>8, <1>11, <1>12, <1>13, <2>2, <2>3, <2>4 DEF InStep
<1> QED BY <1>15, <1>16, <1>17, <1>18

\* What befalls the line, the pi or deploy.
LEMMA HarmInStep ==
  ASSUME TypeOK, TypeOK', Progress, InStep, harm' # "other",
         LineFails \/ PowerFails \/ Killed \/ ReadTimeout
  PROVE  InStep'
<1>1. CASE ReadTimeout
  BY <1>1 DEF ReadTimeout, Gone, InStep, Seeking
<1>2. CASE PowerFails \/ Killed
  BY <1>2 DEF PowerFails, Killed
<1>3. CASE LineFails
  <2>1. PICK i \in 1 .. Len(toPi), b \in Noise :
          /\ toPi' = Garbled(toPi, i, b) /\ harm' = "byte" /\ harm = "none" /\ InProgram(i)
          /\ UNCHANGED toMac
    BY <1>3 DEF LineFails
  <2>2. /\ mac \in {"bytes", "wait"} /\ pi = "code" /\ i > 4
        /\ mac' = mac /\ program' = program /\ crc' = crc /\ sent' = sent
        /\ pi' = pi /\ info' = info /\ out' = out /\ started' = started
    BY <1>3, <2>1 DEF InProgram, LineFails, Fault, macVars, piVars
  <2>3. program \in Seq(Byte) /\ Len(program) \in Nat /\ toPi \in Seq(Byte) /\ Len(toPi) \in Nat
    BY <2>2, ProgramIs, LenProperties DEF TypeOK
  <2>4. i \in 5 .. Len(toPi)
    BY <2>2, <2>3
  <2>5. Said' = Said
    BY <2>1, <2>2 DEF Said
  <2>6. KnowsProgram' <=> KnowsProgram
    BY <2>2 DEF KnowsProgram
  <2>7. ASSUME NEW n \in Nat, Coming(n) PROVE Coming(n)'
    <3>1. /\ KnowsProgram /\ Said = << >> /\ ~started /\ Loading(toPi, n, program, TRUE)
      <4>1. (harm = "none") = TRUE
        BY <2>1
      <4> QED BY <2>7, <4>1, ComingIs
    <3>2. Loading(toPi', n, program', FALSE)
      BY <2>1, <2>2, <2>3, <2>4, <3>1, LoadingGarbled
    <3>3. (harm' = "none") = FALSE
      BY <2>1
    <3> QED BY <2>2, <2>5, <2>6, <3>1, <3>2, <3>3, ComingIsNext
  <2>8. CASE mac = "bytes"
    <3>1. PICK n \in Nat : n = sent /\ n = sent'
      BY <2>2 DEF TypeOK
    <3>2. Coming(n)
      BY <2>1, <2>8, <3>1 DEF InStep
    <3>3. Coming(n)'
      BY <2>7, <3>2
    <3>4. Coming(sent)'
      BY <3>1, <3>3 DEF Coming
    <3> QED BY <2>2, <2>8, <3>4 DEF InStep, Seeking
  <2>9. CASE mac = "wait"
    <3>1. PICK n \in Nat : n = Len(program) /\ n = Len(program')
      BY <2>2, <2>3
    <3>2. Coming(n)
      BY <2>1, <2>2, <2>9, <3>1 DEF InStep, Came, Runs, Noticed
    <3>3. Coming(n)'
      BY <2>7, <3>2
    <3>4. Coming(Len(program))'
      BY <3>1, <3>3 DEF Coming
    <3> QED BY <2>2, <2>9, <3>4 DEF InStep, Seeking
  <2> QED BY <2>2, <2>8, <2>9
<1> QED BY <1>1, <1>2, <1>3

----------------------------------------------------------------------------
(***************************************************************************)
(* Every step, and the theorems.                                           *)
(***************************************************************************)
\* boot and the loader stay in step.
LEMMA InStepNext ==
  TypeOK /\ TypeOK' /\ Progress /\ Loader /\ InStep /\ Next => InStep'
<1> SUFFICES ASSUME TypeOK, TypeOK', Progress, Loader, InStep, Next PROVE InStep'
  OBVIOUS
<1>1. CASE harm' = "other"
  BY <1>1 DEF InStep
<1>2. CASE harm' # "other"
  BY <1>2, SeekInStep, SendInStep, AskInStep, ReadInStep, HarmInStep
     DEF Next, MacWorks, PiWorks
<1> QED BY <1>1, <1>2

\* They stay so when nothing happens.
LEMMA NothingHappens ==
  InStep /\ ByteInProgram /\ FailsForSize /\ UNCHANGED vars
    => InStep' /\ ByteInProgram' /\ FailsForSize'
<1> SUFFICES ASSUME InStep, ByteInProgram, FailsForSize, UNCHANGED vars
             PROVE  InStep' /\ ByteInProgram' /\ FailsForSize'
  OBVIOUS
<1>1. /\ mac' = mac /\ program' = program /\ crc' = crc /\ op' = op /\ sent' = sent
      /\ harm' = harm /\ pi' = pi /\ info' = info /\ memory' = memory /\ started' = started
      /\ toPi' = toPi /\ undisturbed' = undisturbed /\ Said' = Said /\ Answer' = Answer
  BY DEF vars, macVars, piVars, lines, histVars, Said, Answer
<1>2. OldRequest(op \o Said)' <=> OldRequest(op \o Said)
  BY <1>1 DEF OldRequest
<1>3. Answered(sent)' <=> Answered(sent)
  BY <1>1 DEF Answered
<1>4. Answered(4)' <=> Answered(4)
  BY <1>1 DEF Answered
<1>5. /\ Accepts' <=> Accepts
      /\ Accepted' <=> Accepted
      /\ TooLarge' <=> TooLarge
  BY <1>1 DEF Accepts, Accepted, KnowsProgram, TooLarge, Follows
<1>6. Coming(sent)' <=> Coming(sent)
  BY <1>1 DEF Coming, KnowsProgram, NearlyProgram
<1>7. Coming(Len(program))' <=> Coming(Len(program))
  BY <1>1 DEF Coming, KnowsProgram, NearlyProgram
<1>8. Came' <=> Came
  BY <1>1 DEF Came, KnowsProgram, NearlyProgram
<1>9. Runs(BOOT_SUCCESS)' <=> Runs(BOOT_SUCCESS)
  BY <1>1 DEF Runs
<1>10. Runs(<< >>)' <=> Runs(<< >>)
  BY <1>1 DEF Runs
<1>11. Noticed' <=> Noticed
  BY <1>1 DEF Noticed
<1>12. InStep'
  BY <1>1, <1>2, <1>3, <1>4, <1>5, <1>6, <1>7, <1>8, <1>9, <1>10, <1>11 DEF InStep
<1>13. ByteInProgram' /\ FailsForSize'
  BY <1>1 DEF ByteInProgram, FailsForSize
<1> QED BY <1>12, <1>13

\* A byte of the program is garbled between PUT_CODE and the loader's check.
LEMMA ByteInProgramNext ==
  ByteInProgram /\ Next => ByteInProgram'
<1> SUFFICES ASSUME ByteInProgram, Next, harm' = "byte"
             PROVE  mac' \in {"bytes", "wait", "booted", "off"}
  BY DEF ByteInProgram
<1>1. CASE \E p \in Programs : Open(p)
  BY <1>1 DEF Open
<1>2. CASE MacWorks
  <2>1. harm = "byte" /\ mac \in {"bytes", "wait", "booted", "off"}
    BY <1>2 DEF ByteInProgram, MacWorks, FirstWord, SeekByte, StringLength, StringChar, SendInfo,
                Drain, PutCode, PutByte, Wait, ReadTimeout, histVars
  <2>2. PutByte \/ Wait \/ ReadTimeout
    BY <1>2, <2>1 DEF MacWorks, FirstWord, SeekByte, StringLength, StringChar, SendInfo,
                      Drain, PutCode
  <2> QED BY <2>2 DEF PutByte, Wait, AfterWait, ReadTimeout, Gone
<1>3. CASE PiWorks \/ PowerOn
  BY <1>3 DEF ByteInProgram, PiWorks, PiPuts, Greet, Ask, ReadRequest, ReadInfo, ReadCode, CheckCode,
              PowerOn, macVars, histVars
<1>4. CASE Killed \/ PowerFails
  BY <1>4 DEF Killed, PowerFails
<1>5. CASE LineFails
  BY <1>5 DEF LineFails, Fault, InProgram, macVars
<1> QED BY <1>1, <1>2, <1>3, <1>4, <1>5 DEF Next

\* A boot that met a waiting loader and no fault never waits ten seconds for a byte.
LEMMA NoTimeout ==
  ASSUME TypeOK, Progress, InStep, FailsForSize, undisturbed, ReadTimeout
  PROVE  FALSE
<1>1. Said \in Seq(Byte) /\ Len(Said) \in Nat /\ toMac \in Seq(Byte) /\ toPi \in Seq(Byte)
  BY SaidSeq DEF TypeOK
<1>2. harm = "none" /\ out = << >> /\ mac # "off"
  BY DEF FailsForSize, ReadTimeout, Quiet, Starved, ReadsWord
<1>3. Said = toMac
  BY <1>1, <1>2, NothingSaid DEF Said
<1>4. Len(Said) < 4
  <2>1. Len(<< >>) = 0
    OBVIOUS
  <2> QED BY <1>3, <2>1 DEF ReadTimeout, Starved
<1>5. /\ program \in Seq(Byte) /\ crc \in [1 .. 4 -> Byte] /\ Len(program) \in Nat
      /\ Len(program) <= MaxInt /\ Answer = Told(Len(program), crc)
  BY <1>2, ProgramIs
<1>6. CASE mac \in Seeking
  <2>1. pi \in {"greeting", "asking"} /\ toPi = << >> /\ Len(toPi) = 0
    BY <1>6 DEF FailsForSize
  <2> QED BY <2>1 DEF ReadTimeout, Quiet
<1>7. CASE mac = "drain"
  <2>1. Answered(4) \/ Accepted \/ TooLarge
    BY <1>2, <1>7 DEF InStep
  <2>2. CASE Answered(4)
    <3> DEFINE a == Told(Len(program), crc)
    <3>1. Len(SubSeq(a, 1, 16)) = 16 /\ Len(SubSeq(a, 5, 16)) = 12
      <4>1. 4 \in 0 .. 4 /\ 4 > 0 /\ 4 * 4 = 16 /\ 4 * 4 - 4 = 12
        OBVIOUS
      <4>2. PICK n \in Nat : n = Len(program) /\ n <= MaxInt
        BY <1>5
      <4> QED BY <1>5, <4>1, <4>2, ToldPart
    <3>2. \/ pi = "asking" /\ toPi = SubSeq(Answer, 1, 16)
          \/ pi = "info" /\ toPi = SubSeq(Answer, 5, 16)
      <4>1. 4 * 4 = 16
        OBVIOUS
      <4> QED BY <2>2, <4>1 DEF Answered
    <3>3. Answer = a
      BY <1>5
    <3> HIDE DEF a
    <3>4. \/ pi = "asking" /\ Len(toPi) = 16
          \/ pi = "info" /\ Len(toPi) = 12
      BY <3>1, <3>2, <3>3
    <3>5. \/ pi = "asking" /\ Len(toPi) \in 1 .. 3
          \/ pi = "info" /\ Len(toPi) < 12
      BY <3>4 DEF ReadTimeout, Quiet
    <3>6. CASE pi = "asking"
      BY <3>4, <3>5, <3>6
    <3>7. CASE pi = "info"
      <4>1. Len(toPi) = 12
        BY <3>4, <3>7
      <4>2. Len(toPi) < 12
        BY <3>5, <3>7
      <4> QED BY <4>1, <4>2
    <3> QED BY <3>4, <3>6, <3>7
  <2>3. CASE Accepted
    BY <1>1, <1>4, <2>3 DEF Accepted
  <2>4. CASE TooLarge
    <3>1. PICK n \in 0 .. Len(Said) - 4 : TRUE
      BY <2>4 DEF TooLarge
    <3> QED BY <1>1, <1>4, <3>1
  <2> QED BY <2>1, <2>2, <2>3, <2>4
<1>8. CASE mac = "wait"
  <2>1. Coming(Len(program)) \/ Came \/ Runs(BOOT_SUCCESS)
    BY <1>2, <1>8 DEF InStep, Noticed
  <2>2. CASE Coming(Len(program))
    BY <1>5, <2>2 DEF Coming, KnowsProgram, ReadTimeout, Quiet
  <2>3. CASE Came
    BY <2>3 DEF Came, ReadTimeout, Quiet
  <2>4. CASE Runs(BOOT_SUCCESS)
    <3>1. Len(BOOT_SUCCESS) = 4
      BY DEF BOOT_SUCCESS
    <3> QED BY <1>1, <1>4, <2>4, <3>1 DEF Runs
  <2> QED BY <2>1, <2>2, <2>3, <2>4
<1> QED BY <1>6, <1>7, <1>8 DEF ReadTimeout, Starved, ReadsWord, Seeking

\* What boot panics at, or gives up for, is the BOOT_ERROR of a loader that has no
\* room for the program.
LEMMA GivesUpForSize ==
  ASSUME TypeOK, Progress, InStep, FailsForSize, undisturbed, Drain \/ Wait, mac' = "off"
  PROVE  Len(program) > MaxSize
<1>1. Said \in Seq(Byte) /\ Len(Said) \in Nat
  BY SaidSeq
<1>2. harm = "none"
  BY DEF FailsForSize
<1>3. Len(Said) >= 4 /\ Word = SubSeq(Said, 1, 4)
  BY SaidTakesWord DEF Drain, Wait, piVars
<1>4. CASE Drain
  <2>1. mac = "drain" /\ Word # GET_PROG_INFO /\ Word # GET_CODE
    BY <1>4 DEF Drain, AfterDrain
  <2>2. Answered(4) \/ Accepted \/ TooLarge
    BY <1>2, <2>1 DEF InStep
  <2>3. ~ Answered(4)
    BY <1>1, <1>3, <2>1, RequestsDropped DEF Answered
  <2>4. ~ Accepted
    <3> SUFFICES ASSUME Accepted PROVE FALSE
      OBVIOUS
    <3>1. PICK n \in Nat : n = Len(Said) - 4 /\ n + 4 <= Len(Said)
      <4>1. Len(Said) - 4 \in Nat /\ Len(Said) - 4 + 4 <= Len(Said)
        BY <1>1, <1>3
      <4> QED BY <4>1
    <3>2. Behind(Said, n, GET_CODE) /\ GET_CODE \in Words
      BY <3>1 DEF Accepted, Follows, Behind, Words
    <3>3. n = 0 \/ n > 0
      BY <3>1
    <3> QED BY <1>1, <1>3, <2>1, <3>1, <3>2, <3>3, BehindFirst
  <2> QED BY <2>2, <2>3, <2>4 DEF TooLarge
<1>5. CASE Wait
  <2>1. mac = "wait" /\ Word # BOOT_SUCCESS
    BY <1>5 DEF Wait, AfterWait
  <2>2. Said # << >>
    BY <1>1, <1>3, EmptySeq
  <2>3. Said = BOOT_SUCCESS
    BY <1>2, <2>1, <2>2 DEF InStep, Coming, Came, Runs, Noticed
  <2>4. Len(BOOT_SUCCESS) = 4
    BY DEF BOOT_SUCCESS
  <2>5. SubSeq(Said, 1, Len(Said)) = Said
    BY <1>1, SubSeqFull
  <2>6. Word = BOOT_SUCCESS
    BY <1>3, <2>3, <2>4, <2>5
  <2> QED BY <2>1, <2>6
<1> QED BY <1>4, <1>5

\* Every step of a boot that met a waiting loader and no fault.
LEMMA FailsForSizeNext ==
  TypeOK /\ Progress /\ InStep /\ FailsForSize /\ Next => FailsForSize'
<1> SUFFICES ASSUME TypeOK, Progress, InStep, FailsForSize, Next, undisturbed'
             PROVE  /\ harm' = "none"
                    /\ mac' \in Seeking => pi' \in {"greeting", "asking"} /\ toPi' = << >>
                    /\ mac' = "off" => Len(program') > MaxSize
  BY DEF FailsForSize
<1>1. CASE \E p \in Programs : Open(p)
  <2>1. /\ pi \in {"greeting", "asking"} /\ toPi = << >> /\ ~ OldRequest(Said)
        /\ harm' = (IF OldRequest(Said) THEN "other" ELSE "none") /\ mac' = "first"
        /\ pi' = pi /\ toPi' = toPi
    BY <1>1 DEF Open, piVars, lines
  <2> QED BY <2>1
<1>2. CASE MacWorks
  <2>1. undisturbed /\ harm' = harm /\ pi' = pi /\ harm = "none"
    BY <1>2 DEF MacWorks, FirstWord, SeekByte, StringLength, StringChar, SendInfo, Drain, PutCode,
                PutByte, Wait, ReadTimeout, piVars, histVars, FailsForSize
  <2>2. ~ ReadTimeout
    BY <2>1, NoTimeout
  <2>3. program' = program
    BY <1>2, <2>2 DEF MacWorks, FirstWord, SeekByte, StringLength, StringChar, SendInfo, Drain, PutCode,
                PutByte, Wait
  <2>4. mac' \in Seeking => mac \in Seeking /\ toPi' = toPi
    BY <1>2, <2>2 DEF MacWorks, FirstWord, SeekByte, StringLength, StringChar, SendInfo, Drain, PutCode,
                PutByte, Wait, AfterDrain, AfterWait, Seeking
  <2>5. mac' = "off" => Drain \/ Wait
    <3>1. mac' = "off" => ~ SeekByte
      <4>1. SeekByte => mac' \in {"answer", "length", "seek"}
        BY DEF SeekByte
      <4> QED BY <4>1
    <3>2. mac' = "off" => ~ (FirstWord \/ StringLength \/ StringChar \/ SendInfo \/ PutCode \/ PutByte)
      BY DEF FirstWord, StringLength, StringChar, SendInfo, PutCode, PutByte
    <3> QED BY <1>2, <2>2, <3>1, <3>2 DEF MacWorks
  <2>6. mac' = "off" => Len(program) > MaxSize
    BY <2>1, <2>5, GivesUpForSize
  <2> QED BY <2>1, <2>3, <2>4, <2>6 DEF FailsForSize
<1>3. CASE PiWorks \/ PowerOn
  <2>1. /\ undisturbed /\ harm' = harm /\ mac' = mac /\ program' = program
    BY <1>3 DEF PiWorks, PiPuts, Greet, Ask, ReadRequest, ReadInfo, ReadCode, CheckCode, PowerOn,
                macVars, histVars
  <2>2. ASSUME mac \in Seeking PROVE pi' \in {"greeting", "asking"} /\ toPi' = << >>
    <3>1. pi \in {"greeting", "asking"} /\ toPi = << >> /\ Len(toPi) = 0
      BY <2>1, <2>2 DEF FailsForSize
    <3>2. PiPuts \/ Greet \/ Ask
      <4>1. ~ ReadRequest
        BY <3>1 DEF ReadRequest
      <4>2. ~ (ReadInfo \/ ReadCode \/ CheckCode \/ PowerOn)
        BY <3>1 DEF ReadInfo, ReadCode, CheckCode, PowerOn
      <4> QED BY <1>3, <4>1, <4>2 DEF PiWorks
    <3> QED BY <3>1, <3>2 DEF PiPuts, Greet, Ask, lines
  <2> QED BY <2>1, <2>2 DEF FailsForSize
<1>4. CASE Killed \/ PowerFails \/ LineFails
  BY <1>4 DEF Killed, PowerFails, LineFails, Fault
<1> QED BY <1>1, <1>2, <1>3, <1>4 DEF Next

\* boot and the loader are in step, for all programs, prints, stale bytes, values of a
\* garbled byte and numbers of deploys and faults: whatever earlier deploys left in the
\* tty, boot answers a request that the loader waits for, the loader reads the four
\* words
\* of the answer and the program as they were sent, and boot takes a BOOT_SUCCESS only
\* from the loader that checked this program.  Only an old request in the tty, a kill,
\* a
\* loss of power, or a fault outside the program leaves the steps unknown.
THEOREM Invariance == Spec => []IInv
<1>1. Init => IInv
  <2> SUFFICES ASSUME Init PROVE IInv
    OBVIOUS
  <2>1. TypeOK /\ Progress /\ Loader
    BY TypeInit
  <2>2. mac = "off" /\ harm = "none" /\ ~undisturbed
    BY DEF Init
  <2>3. InStep /\ ByteInProgram /\ FailsForSize
    BY <2>2 DEF InStep, ByteInProgram, FailsForSize, Seeking
  <2> QED BY <2>1, <2>3 DEF IInv
<1>2. IInv /\ [Next]_vars => IInv'
  <2> SUFFICES ASSUME IInv, [Next]_vars PROVE IInv'
    OBVIOUS
  <2>1. TypeOK /\ Progress /\ Loader /\ InStep /\ ByteInProgram /\ FailsForSize
    BY DEF IInv
  <2>2. TypeOK' /\ Progress' /\ Loader'
    BY <2>1, TypeNext
  <2>3. InStep' /\ ByteInProgram' /\ FailsForSize'
    BY <2>1, <2>2, InStepNext, ByteInProgramNext, FailsForSizeNext, NothingHappens
  <2> QED BY <2>2, <2>3 DEF IInv
<1> QED BY <1>1, <1>2, PTL DEF Spec

\* The variables of boot, of the loader and of the line keep their types.
THEOREM TypeCorrect == Spec => []TypeOK
<1>1. IInv => TypeOK
  BY DEF IInv
<1> QED BY <1>1, Invariance, PTL

\* A boot that meets a loader that waits, and no fault, gives up only a program larger
\* than the loader has room for: no timeout, no panic at an unknown word behind the
\* answer, no end of the count of skipped words.
THEOREM FailsOnlyForSize == Spec => []FailsForSize
<1>1. IInv => FailsForSize
  BY DEF IInv
<1> QED BY <1>1, Invariance, PTL

\* When boot returns 0 after nothing worse than a garbled byte of its program, this
\* program runs, whole, and the line is empty in both directions; the pi is then at
\* entry.
\* That a garbled byte does not pass rests on ChangeIsNoticed.
THEOREM HandsOverHolds ==
  Spec => [](harm # "other" => HandsOver /\ (mac = "booted" => pi = "running"))
<1>1. IInv => (harm # "other" => HandsOver /\ (mac = "booted" => pi = "running"))
  <2> SUFFICES ASSUME TypeOK, InStep, harm # "other", mac = "booted"
               PROVE  HandsOver /\ pi = "running"
    BY DEF IInv, HandsOver
  <2>1. Runs(<< >>)
    BY DEF InStep
  <2>2. Said = << >> /\ toMac \in Seq(Byte) /\ out \in Seq(Byte)
    BY <2>1 DEF Runs, TypeOK
  <2>3. toMac = << >> /\ out = << >>
    <3>1. Len(toMac \o out) = Len(toMac) + Len(out) /\ Len(toMac) \in Nat /\ Len(out) \in Nat
      BY <2>2, Joined
    <3>2. Len(toMac \o out) = 0
      <4>1. Len(<< >>) = 0
        OBVIOUS
      <4> QED BY <2>2, <4>1 DEF Said
    <3> QED BY <2>2, <3>1, <3>2, EmptySeq
  <2> QED BY <2>1, <2>3 DEF HandsOver, Runs
<1> QED BY <1>1, Invariance, PTL

Phase == IF mac = "off" THEN "off" ELSE IF started \/ mac = "booted" THEN "name" ELSE "boot"

\* What of the abstract boot can change: its phase and the kernel's start.
LEMMA BootStutters ==
  ASSUME Phase' = Phase, (pi' = "running") <=> (pi = "running"), deploys' = deploys
  PROVE  UNCHANGED Boot!vars
<1>1. (pi' = "running") = (pi = "running")
  OBVIOUS
<1> QED BY <1>1 DEF Phase, Boot!vars, Boot!macVars, Boot!piVars, Boot!histVars

\* The end of deploy.
LEMMA BootKilled ==
  ASSUME mac # "off", mac' = "off", (pi' = "running") <=> (pi = "running"), deploys' = deploys
  PROVE  Boot!Killed
<1>1. (pi' = "running") = (pi = "running")
  OBVIOUS
<1>2. [n \in {<<"fs">>} |-> 0][<<"fs">>] = 0
  BY <<"fs">> \in {<<"fs">>}
<1> QED BY <1>1, <1>2 DEF Boot!Killed, Boot!DieUnsaved, Boot!piVars

\* A loss of power.
LEMMA BootReset ==
  ASSUME Phase' = Phase, pi' # "running", deploys' = deploys
  PROVE  Boot!Reset("disk")
<1>1. (pi' = "running") = FALSE
  OBVIOUS
<1> QED BY <1>1 DEF Phase, Boot!Reset, Boot!macVars, Boot!histVars

\* A kernel that starts when no deploy waits for it.
LEMMA BootStartsLate ==
  ASSUME Phase' = Phase, Phase # "name", pi # "running", pi' = "running", deploys' = deploys,
         deploys > 0
  PROVE  Boot!StartsLate("disk")
<1>1. (pi' = "running") = TRUE /\ (pi = "running") = FALSE
  OBVIOUS
<1> QED BY <1>1 DEF Phase, Boot!StartsLate, Boot!Dialogue, Boot!macVars, Boot!histVars

\* The kernel of this deploy starts.
LEMMA BootLoadsKernel ==
  ASSUME Phase = "boot", Phase' = "name", pi # "running", pi' = "running", deploys' = deploys
  PROVE  Boot!LoadKernel
<1>1. (pi' = "running") = TRUE /\ (pi = "running") = FALSE
  OBVIOUS
<1> QED BY <1>1 DEF Phase, Boot!LoadKernel, Boot!histVars

\* Every step between two openings of the tty is a step of DfsBoot.
LEMMA BootNext ==
  ASSUME IInv, [Next]_vars, deploys' = deploys, mac \in {"wait", "booted"} => harm # "other"
  PROVE  Boot!Next \/ UNCHANGED Boot!vars
<1>1. TypeOK /\ Progress /\ Loader /\ InStep
  BY DEF IInv
<1>2. CASE UNCHANGED vars
  BY <1>2, BootStutters DEF vars, macVars, piVars, histVars, Phase
<1>3. CASE \E p \in Programs : Open(p)
  <2>1. deploys \in 0 .. MaxDeploys /\ MaxDeploys \in Nat /\ deploys' = deploys + 1
    <3>1. deploys \in 0 .. MaxDeploys /\ deploys' = deploys + 1
      BY <1>1, <1>3 DEF TypeOK, Open
    <3> QED BY <3>1, BoundsAssumption
  <2>2. PICK d \in Nat : deploys = d /\ deploys' = d + 1
    BY <2>1
  <2>3. d + 1 # d
    OBVIOUS
  <2> QED BY <2>2, <2>3, SMTT(30)
<1>4. CASE MacWorks \/ Killed
  <2>1. mac # "off" /\ pi' = pi
    BY <1>4 DEF MacWorks, FirstWord, SeekByte, StringLength, StringChar, SendInfo, Drain, PutCode,
                PutByte, Wait, ReadTimeout, Starved, ReadsWord, Killed, piVars
  <2>2. CASE mac' = "off"
    BY <2>1, <2>2, BootKilled DEF Boot!Next
  <2>3. CASE mac' # "off"
    <3>1. ~ Killed /\ ~ ReadTimeout
      BY <2>3 DEF Killed, ReadTimeout, Gone
    <3>2. started' = started
      BY <1>4, <3>1 DEF MacWorks, FirstWord, SeekByte, StringLength, StringChar, SendInfo, Drain,
                  PutCode, PutByte, Wait, histVars
    <3>3. mac' = "booted" => Wait
      <4>1. mac' = "booted" => ~ SeekByte
        <5>1. SeekByte => mac' \in {"answer", "length", "seek"}
          BY DEF SeekByte
        <5> QED BY <5>1
      <4> QED BY <1>4, <3>1, <4>1 DEF MacWorks, FirstWord, StringLength, StringChar, SendInfo, Drain,
                  AfterDrain, PutCode, PutByte
    <3>4. mac' = "booted" => started
      <4> SUFFICES ASSUME mac' = "booted" PROVE started
        OBVIOUS
      <4>1. Wait
        BY <3>3
      <4>2. mac = "wait" /\ Word = BOOT_SUCCESS /\ harm # "other"
        BY <4>1 DEF Wait, AfterWait
      <4>3. /\ Said \in Seq(Byte) /\ Len(Said) \in Nat
            /\ Len(Said) >= 4 /\ Word = SubSeq(Said, 1, 4)
        BY <1>1, <4>1, SaidSeq, SaidTakesWord DEF Wait, piVars
      <4>4. Said # << >>
        BY <4>3, EmptySeq
      <4>5. ~ Noticed
        <5>1. At(BOOT_SUCCESS, Said, 1)
          BY <4>2, <4>3, AtFirst DEF Words
        <5>2. 1 \in 1 .. Len(Said) - 3
          BY <4>3
        <5> QED BY <5>1, <5>2 DEF Noticed, Occurs
      <4> QED BY <1>1, <4>2, <4>4, <4>5 DEF InStep, Coming, Came, Runs
    <3>5. mac # "booted"
      BY <1>4, <3>1 DEF MacWorks, FirstWord, SeekByte, StringLength, StringChar, SendInfo, Drain,
                  PutCode, PutByte, Wait
    <3>6. Phase' = Phase
      BY <2>1, <2>3, <3>2, <3>4, <3>5 DEF Phase
    <3> QED BY <2>1, <3>6, BootStutters
  <2> QED BY <2>2, <2>3
<1>5. CASE CheckCode /\ CodeIsGood
  <2>1. /\ pi = "check" /\ pi' = "running" /\ mac' = mac
        /\ started' = (started \/ (mac = "wait" /\ memory = program))
    BY <1>5 DEF CheckCode, macVars
  <2>2. deploys > 0
    <3>1. deploys \in 0 .. MaxDeploys /\ MaxDeploys \in Nat
      BY <1>1, BoundsAssumption DEF TypeOK
    <3>2. deploys # 0
      BY <1>1, <2>1 DEF Loader
    <3> QED BY <3>1, <3>2, SMTT(30)
  <2>3. Phase # "name"
    <3>1. mac # "booted"
      BY <1>1, <2>1 DEF InStep, Runs
    <3>2. mac = "wait" => ~started
      BY <1>1, <2>1 DEF InStep, Coming, Came, Runs, Noticed
    <3> QED BY <1>1, <3>1, <3>2 DEF Progress, Phase
  <2>4. CASE Phase' = Phase
    <3>1. Boot!StartsLate("disk")
      BY <2>1, <2>2, <2>3, <2>4, BootStartsLate
    <3> QED BY <3>1 DEF Boot!Next
  <2>5. CASE Phase' # Phase
    <3>1. Phase = "boot" /\ Phase' = "name"
      BY <2>1, <2>3, <2>5 DEF Phase
    <3>2. Boot!LoadKernel
      BY <2>1, <3>1, BootLoadsKernel
    <3> QED BY <3>2 DEF Boot!Next, Boot!MacWorks
  <2> QED BY <2>4, <2>5
<1>6. CASE CheckCode /\ ~CodeIsGood
  <2>1. pi = "check" /\ pi' = "greeting" /\ mac' = mac /\ started' = started
    BY <1>6 DEF CheckCode, macVars, Rejects
  <2> QED BY <2>1, BootStutters DEF Phase
<1>7. CASE PiPuts \/ Greet \/ Ask \/ ReadRequest \/ ReadInfo \/ ReadCode \/ PowerOn \/ LineFails
  <2>1. mac' = mac /\ started' = started
    BY <1>7 DEF PiPuts, Greet, Ask, ReadRequest, ReadInfo, ReadCode, PowerOn, LineFails, Fault,
                macVars, histVars
  <2>2. (pi' = "running") <=> (pi = "running")
    BY <1>7 DEF PiPuts, Greet, Ask, ReadRequest, ReadInfo, ReadCode, PowerOn, LineFails, piVars, Rejects
  <2> QED BY <2>1, <2>2, BootStutters DEF Phase
<1>8. CASE PowerFails
  <2>1. mac' = mac /\ started' = started /\ pi' = "off"
    BY <1>8 DEF PowerFails, Fault, macVars
  <2>2. Boot!Reset("disk")
    BY <2>1, BootReset DEF Phase
  <2> QED BY <2>2 DEF Boot!Next
<1> QED BY <1>2, <1>3, <1>4, <1>5, <1>6, <1>7, <1>8 DEF Next, PiWorks

\* A step of boot and the loader between two openings of the tty that is no step of
\* DfsBoot is one of a deploy that waits for BOOT_SUCCESS, or has it, although more
\* befell it than a garbled byte of its program.
THEOREM DivergesOnlyByHarm ==
  Spec => [][deploys' = deploys /\ (mac \in {"wait", "booted"} => harm # "other") => Boot!Next]_(Boot!vars)
<1>1. IInv /\ [Next]_vars =>
        [deploys' = deploys /\ (mac \in {"wait", "booted"} => harm # "other") => Boot!Next]_(Boot!vars)
  BY BootNext
<1> QED BY <1>1, Invariance, PTL DEF Spec

\* LoadKernel is what the word-by-word dialogue adds up to: when no deploy gets as far
\* as waiting for BOOT_SUCCESS with worse behind it than a garbled byte of its program,
\* every step between two openings of the tty is one of DfsBoot or none, for all
\* values of the constants.
THEOREM IsDfsBoot ==
  Spec /\ [](mac \in {"wait", "booted"} => harm # "other") => ImplementsDfsBoot
<1> DEFINE Harmless == mac \in {"wait", "booted"} => harm # "other"
<1>1. IInv /\ Harmless /\ [Next]_vars => [deploys' = deploys => Boot!Next]_(Boot!vars)
  BY BootNext
<1> HIDE DEF Harmless
<1>2. Spec /\ []Harmless => ImplementsDfsBoot
  BY <1>1, Invariance, PTL DEF Spec, ImplementsDfsBoot
<1> QED BY <1>2 DEF Harmless

=============================================================================
