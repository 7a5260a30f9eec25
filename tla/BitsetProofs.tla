---------------------------- MODULE BitsetProofs ----------------------------
(***************************************************************************)
(* The bitset promises positions and works on words: for every word size,  *)
(* every number of members and every range, the masks, the invalid bits    *)
(* behind the last member and the searches by whole words come to the same *)
(* as the set operations of BitsetSpec.                                    *)
(***************************************************************************)
EXTENDS Bitset, FiniteSetTheorems, WellFoundedInduction, TLAPS

-----------------------------------------------------------------------------
(* Positions and words *)

(* Every nonempty set of naturals has a least element: the subset ordering
   of the sets 1..n is well-founded. *)
LEMMA LeastOf ==
    ASSUME NEW S \in SUBSET Nat, S # {}
    PROVE  \E n \in S : \A m \in S : n <= m
<1> DEFINE R == StrictSubsetOrdering(Nat)
           T == {1..n : n \in S}
<1>1. IsWellFoundedOn(R, FiniteSubsetsOf(Nat))
  BY FS_StrictSubsetOrderingWellFounded
<1>2. T \subseteq FiniteSubsetsOf(Nat) /\ T # {}
  <2>1. \A n \in S : IsFiniteSet(1..n) /\ 1..n \subseteq Nat
    BY FS_Interval
  <2>2. QED
    BY <2>1 DEF FiniteSubsetsOf
<1>3. \E x \in T : \A y \in T : ~ (<<y, x>> \in R)
  <2> HIDE DEF R, T
  <2> QED
    BY <1>1, <1>2, WFMin
<1>4. PICK n \in S : \A m \in S : ~ (<<1..m, 1..n>> \in R)
  BY <1>3
<1>5. ASSUME NEW m \in S, ~(n <= m)  PROVE FALSE
  <2>1. 1..m \subseteq 1..n /\ n \in 1..n /\ n \notin 1..m
    BY <1>5
  <2>2. 1..m # 1..n
    BY <2>1
  <2>3. <<1..m, 1..n>> \in R
    BY <2>1, <2>2 DEF StrictSubsetOrdering
  <2>4. QED
    BY <1>4, <2>3
<1>6. QED
  BY <1>5

(* Lowest returns the least element. *)
LEMMA LowestIs ==
    ASSUME NEW S \in SUBSET Nat, S # {}
    PROVE  Lowest(S) \in S /\ \A c \in S : Lowest(S) <= c
<1>1. \E b \in S : \A c \in S : b <= c
  BY LeastOf
<1>2. QED
  BY <1>1 DEF Lowest

(* The position of bit b of word i *)
At(i, b) == i * WordSize + b

(* Every position is a bit of a word. *)
LEMMA PositionIs ==
    ASSUME NEW p \in Nat
    PROVE  p \div WordSize \in Nat /\ p % WordSize \in Bits
           /\ p = At(p \div WordSize, p % WordSize)
  BY WordSizeAssumption DEF At, Bits

(* Every bit of a word is a position. *)
LEMMA AtIs ==
    ASSUME NEW i \in Nat, NEW b \in Bits
    PROVE  At(i, b) \in Nat /\ At(i, b) \div WordSize = i /\ At(i, b) % WordSize = b
  BY WordSizeAssumption DEF At, Bits

(* Positions are ordered by word, then by bit. *)
LEMMA AtOrder ==
    ASSUME NEW i \in Nat, NEW j \in Nat, NEW b \in Bits, NEW c \in Bits
    PROVE  /\ At(i, b) < At(j, c) <=> i < j \/ (i = j /\ b < c)
           /\ At(i, b) <= At(j, c) <=> i < j \/ (i = j /\ b <= c)
<1>1. b \in Nat /\ c \in Nat /\ b < WordSize /\ c < WordSize /\ WordSize \in Nat
  BY WordSizeAssumption DEF Bits
<1>2. \A m, n \in Nat : m < n => m * WordSize + WordSize <= n * WordSize
  <2>1. SUFFICES ASSUME NEW m \in Nat, NEW n \in Nat, m < n
                 PROVE  m * WordSize + WordSize <= n * WordSize
    OBVIOUS
  <2>2. PICK d \in Nat : n = m + 1 + d
    <3>1. n - m - 1 \in Nat /\ n = m + 1 + (n - m - 1)
      BY <2>1
    <3>2. QED
      BY <3>1
  <2>3. n * WordSize = m * WordSize + WordSize + d * WordSize /\ d * WordSize \in Nat
    BY <2>2, <1>1
  <2>4. QED
    BY <2>3, <1>1
<1>3. i * WordSize \in Nat /\ j * WordSize \in Nat
  BY <1>1
<1>4. CASE i = j
  BY <1>4, <1>1, <1>3 DEF At
<1>5. CASE i < j
  <2>1. i * WordSize + WordSize <= j * WordSize
    BY <1>2, <1>5
  <2> QED
    BY <1>5, <2>1, <1>1, <1>3 DEF At
<1>6. CASE j < i
  <2>1. j * WordSize + WordSize <= i * WordSize
    BY <1>2, <1>6
  <2> QED
    BY <1>6, <2>1, <1>1, <1>3 DEF At
<1>7. QED
  BY <1>4, <1>5, <1>6

(* The mask of a range has exactly the bits of word i whose positions are in
   the range, wherever the range starts and ends within its words. *)
LEMMA RangeMaskIs ==
    ASSUME NEW i \in Nat, NEW b, NEW o \in Nat, NEW l \in Nat \ {0}
    PROVE  b \in RangeMask(i, o, l) <=>
             b \in Bits /\ o <= At(i, b) /\ At(i, b) < o + l
<1> DEFINE fw == o \div WordSize
           fb == o % WordSize
           lw == (o + l) \div WordSize
           lb == (o + l) % WordSize
<1>1. o + l \in Nat /\ o < o + l
  OBVIOUS
<1>2. fw \in Nat /\ fb \in Bits /\ o = At(fw, fb)
  BY PositionIs
<1>3. lw \in Nat /\ lb \in Bits /\ o + l = At(lw, lb)
  BY PositionIs, <1>1
<1>4. fw < lw \/ (fw = lw /\ fb < lb)
  BY <1>1, <1>2, <1>3, AtOrder
<1>5. RangeMask(i, o, l) =
        IF i = fw /\ fb # 0
        THEN IF fw = lw /\ lb # 0 THEN fb..lb - 1 ELSE fb..WordSize - 1
        ELSE IF i \in (IF fb # 0 THEN fw + 1 ELSE fw)..lw - 1 THEN Bits
        ELSE IF i = lw /\ lb # 0 /\ ~(fw = lw /\ fb # 0) THEN 0..lb - 1
        ELSE {}
  BY DEF RangeMask
<1>6. Bits = 0..WordSize - 1 /\ WordSize \in Nat \ {0}
  BY WordSizeAssumption DEF Bits
<1> HIDE DEF fw, fb, lw, lb
<1>7. ASSUME b \in Bits
      PROVE  b \in RangeMask(i, o, l) <=>
               (fw < i \/ (fw = i /\ fb <= b)) /\ (i < lw \/ (i = lw /\ b < lb))
  BY <1>2, <1>3, <1>4, <1>5, <1>6, <1>7
<1>8. b \in RangeMask(i, o, l) => b \in Bits
  BY <1>2, <1>3, <1>4, <1>5, <1>6
<1>9. ASSUME b \in Bits
      PROVE  /\ o <= At(i, b) <=> fw < i \/ (fw = i /\ fb <= b)
             /\ At(i, b) < o + l <=> i < lw \/ (i = lw /\ b < lb)
  BY <1>2, <1>3, <1>9, AtOrder
<1>10. QED
  BY <1>7, <1>8, <1>9

-----------------------------------------------------------------------------
(* The words of a bitset of n members *)

(* A bit that is there *)
Hit(w, p) == p \div WordSize \in DOMAIN w /\ p % WordSize \in w[p \div WordSize]

LEMMA NWordsIs ==
    ASSUME numberOfMembers \in Nat \ {0}
    PROVE  /\ FullWords \in Nat /\ LastBit \in Bits
           /\ numberOfMembers = At(FullWords, LastBit)
           /\ NWords = IF LastBit # 0 THEN FullWords + 1 ELSE FullWords
           /\ NWords \in Nat \ {0}
<1>1. FullWords \in Nat /\ LastBit \in Bits /\ numberOfMembers = At(FullWords, LastBit)
  BY PositionIs DEF FullWords, LastBit
<1>2. LastBit \in Int /\ 0 * WordSize = 0
  BY <1>1, WordSizeAssumption DEF Bits
<1>3. NWords = IF LastBit # 0 THEN FullWords + 1 ELSE FullWords
  BY <1>1 DEF NWords
<1>4. ~(FullWords = 0 /\ LastBit = 0)
  BY <1>1, <1>2 DEF At
<1>5. QED
  BY <1>1, <1>2, <1>3, <1>4

(* The words have all members, and bits behind them only in the last one. *)
LEMMA MembersIn ==
    ASSUME numberOfMembers \in Nat \ {0}, NEW i \in Nat, NEW b \in Bits
    PROVE  /\ At(i, b) < numberOfMembers => i \in 0..NWords - 1
           /\ i \in 0..NWords - 1 /\ ~(At(i, b) < numberOfMembers) =>
                LastBit # 0 /\ i = FullWords /\ i = NWords - 1 /\ b \in LastBit..WordSize - 1
<1>1. At(i, b) < numberOfMembers <=> i < FullWords \/ (i = FullWords /\ b < LastBit)
  BY NWordsIs, AtOrder
<1>2. b \in Nat /\ b < WordSize /\ LastBit \in Nat
  BY NWordsIs, WordSizeAssumption DEF Bits
<1>3. QED
  BY <1>1, <1>2, NWordsIs, WordSizeAssumption

(* The search by words: the lowest bit of the first word that has one. *)
LEMMA FirstOfIs ==
    ASSUME numberOfMembers \in Nat \ {0}, NEW w \in [0..NWords - 1 -> SUBSET Bits],
           NEW i \in 0..NWords - 1
    PROVE  \/ /\ FirstOf(w, i) = numberOfMembers
              /\ \A j \in i..NWords - 1 : w[j] = {}
           \/ \E j \in i..NWords - 1 : \E b \in w[j] :
                 /\ FirstOf(w, i) = At(j, b)
                 /\ \A k \in i..NWords - 1 : \A c \in w[k] : At(j, b) <= At(k, c)
<1> DEFINE hits == {j \in i..NWords - 1 : w[j] # {}}
<1>1. FirstOf(w, i) = IF hits = {} THEN numberOfMembers
                      ELSE At(Lowest(hits), Lowest(w[Lowest(hits)]))
  BY DEF FirstOf, At
<1>2. hits \in SUBSET Nat /\ NWords \in Nat
  BY NWordsIs
<1>3. CASE hits = {}
  <2>1. \A j \in i..NWords - 1 : w[j] = {}
    BY <1>3
  <2>2. FirstOf(w, i) = numberOfMembers
    BY <1>1, <1>3
  <2> QED
    BY <2>1, <2>2
<1>4. CASE hits # {}
  <2>1. PICK j \in hits : Lowest(hits) = j /\ \A k \in hits : j <= k
    BY <1>2, <1>4, LowestIs
  <2>2. j \in i..NWords - 1 /\ j \in Nat /\ w[j] # {} /\ w[j] \in SUBSET Bits /\ w[j] \in SUBSET Nat
    BY <1>2, <2>1, WordSizeAssumption DEF Bits
  <2>3. PICK b \in w[j] : Lowest(w[j]) = b /\ \A c \in w[j] : b <= c
    BY <2>2, LowestIs
  <2>4. FirstOf(w, i) = At(j, b)
    BY <1>1, <1>4, <2>1, <2>3
  <2>5. ASSUME NEW k \in i..NWords - 1, NEW c \in w[k]
        PROVE  At(j, b) <= At(k, c)
    <3>1. k \in hits /\ k \in Nat /\ c \in Bits /\ b \in Bits
      BY <2>2, <1>2
    <3>2. j <= k /\ (j = k => b <= c)
      BY <2>1, <2>3, <3>1
    <3>3. j < k \/ (j = k /\ b <= c)
      BY <3>2, <3>1, <2>2
    <3> QED
      BY <3>1, <3>3, <2>2, AtOrder
  <2> QED
    BY <2>2, <2>4, <2>5
<1>5. QED
  BY <1>3, <1>4

(* From offset on, the search finds the lowest bit at or behind offset. *)
LEMMA NextOf ==
    ASSUME numberOfMembers \in Nat \ {0}, NEW w \in [0..NWords - 1 -> SUBSET Bits],
           NEW o \in 0..numberOfMembers - 1
    PROVE  LET r == FirstOf(From(w, o), o \div WordSize)
           IN  \/ /\ r = numberOfMembers
                  /\ \A p \in Nat : o <= p => ~Hit(w, p)
               \/ /\ r \in Nat /\ o <= r /\ Hit(w, r)
                  /\ \A p \in Nat : o <= p /\ Hit(w, p) => r <= p
<1> DEFINE i == o \div WordSize
           f == o % WordSize
           v == From(w, o)
<1>1. o \in Nat /\ o < numberOfMembers /\ i \in Nat /\ f \in Bits /\ o = At(i, f)
  BY PositionIs
<1>2. i \in 0..NWords - 1 /\ NWords \in Nat
  BY <1>1, MembersIn, NWordsIs
<1>3. v = [w EXCEPT ![i] = w[i] \ 0..f - 1]
  BY DEF From
<1>4. f \in Nat
  BY <1>1, WordSizeAssumption DEF Bits
<1> HIDE DEF i, f, v
<1>5. v \in [0..NWords - 1 -> SUBSET Bits]
  BY <1>2, <1>3
<1>6. \A k \in 0..NWords - 1 : \A c \in Bits :
        k \in i..NWords - 1 /\ c \in v[k] <=> c \in w[k] /\ o <= At(k, c)
  <2>1. SUFFICES ASSUME NEW k \in 0..NWords - 1, NEW c \in Bits
                 PROVE  k \in i..NWords - 1 /\ c \in v[k] <=> c \in w[k] /\ o <= At(k, c)
    OBVIOUS
  <2>2. k \in Nat /\ c \in Nat
    BY WordSizeAssumption, <1>2 DEF Bits
  <2>3. o <= At(k, c) <=> i < k \/ (i = k /\ f <= c)
    BY <1>1, <2>2, AtOrder
  <2>4. v[k] = IF k = i THEN w[k] \ 0..f - 1 ELSE w[k]
    BY <1>2, <1>3
  <2>5. k \in i..NWords - 1 <=> i <= k
    BY <1>1, <1>2, <2>2
  <2>6. CASE k = i
    BY <2>3, <2>4, <2>5, <2>6, <2>2, <1>1, <1>4
  <2>7. CASE k # i
    BY <2>3, <2>4, <2>5, <2>7, <2>2, <1>1, <1>4
  <2> QED
    BY <2>6, <2>7
<1>7. \A p \in Nat : Hit(w, p) <=>
        \E k \in 0..NWords - 1 : \E c \in w[k] : p = At(k, c)
  <2>1. SUFFICES ASSUME NEW p \in Nat
                 PROVE  Hit(w, p) <=> \E k \in 0..NWords - 1 : \E c \in w[k] : p = At(k, c)
    OBVIOUS
  <2>2. DOMAIN w = 0..NWords - 1
    OBVIOUS
  <2>3. ASSUME Hit(w, p)
        PROVE  \E k \in 0..NWords - 1 : \E c \in w[k] : p = At(k, c)
    BY <2>2, <2>3, PositionIs DEF Hit
  <2>4. ASSUME NEW k \in 0..NWords - 1, NEW c \in w[k], p = At(k, c)
        PROVE  Hit(w, p)
    <3>1. k \in Nat /\ c \in Bits
      BY <1>2
    <3> QED
      BY <2>2, <2>4, <3>1, AtIs DEF Hit
  <2> QED
    BY <2>3, <2>4
<1>8. FirstOf(v, i) = FirstOf(From(w, o), o \div WordSize)
  BY DEF i, v
<1>9. CASE FirstOf(v, i) = numberOfMembers /\ \A j \in i..NWords - 1 : v[j] = {}
  <2>1. ASSUME NEW p \in Nat, o <= p, Hit(w, p)  PROVE FALSE
    <3>1. PICK k \in 0..NWords - 1 : \E c \in w[k] : p = At(k, c)
      BY <1>7, <2>1
    <3>2. PICK c \in w[k] : p = At(k, c)
      BY <3>1
    <3>3. c \in Bits
      OBVIOUS
    <3>4. k \in i..NWords - 1 /\ c \in v[k]
      BY <1>6, <2>1, <3>2, <3>3
    <3> QED
      BY <3>4, <1>9
  <2> QED
    BY <1>8, <1>9, <2>1
<1>10. ASSUME NEW j \in i..NWords - 1, NEW b \in v[j],
              FirstOf(v, i) = At(j, b),
              \A k \in i..NWords - 1 : \A c \in v[k] : At(j, b) <= At(k, c)
       PROVE  /\ FirstOf(v, i) \in Nat /\ o <= FirstOf(v, i) /\ Hit(w, FirstOf(v, i))
              /\ \A p \in Nat : o <= p /\ Hit(w, p) => FirstOf(v, i) <= p
  <2>1. j \in 0..NWords - 1 /\ j \in Nat /\ b \in Bits
    BY <1>1, <1>2, <1>5
  <2>2. b \in w[j] /\ o <= At(j, b) /\ At(j, b) \in Nat
    BY <1>6, <2>1, AtIs
  <2>3. Hit(w, At(j, b))
    BY <1>7, <2>1, <2>2
  <2>4. ASSUME NEW p \in Nat, o <= p, Hit(w, p)  PROVE At(j, b) <= p
    <3>1. PICK k \in 0..NWords - 1 : \E c \in w[k] : p = At(k, c)
      BY <1>7, <2>4
    <3>2. PICK c \in w[k] : p = At(k, c)
      BY <3>1
    <3>3. c \in Bits
      OBVIOUS
    <3>4. k \in i..NWords - 1 /\ c \in v[k]
      BY <1>6, <2>4, <3>2, <3>3
    <3> QED
      BY <3>2, <3>4, <1>10
  <2> QED
    BY <1>10, <2>2, <2>3, <2>4
<1>11. QED
  BY <1>2, <1>5, <1>8, <1>9, <1>10, FirstOfIs

-----------------------------------------------------------------------------
(* What the searches return *)

(* What TypeOK says of the constants is that there are members. *)
LEMMA SomeMembers ==
    ASSUME TypeOK
    PROVE  numberOfMembers \in Nat \ {0} /\ words \in [0..NWords - 1 -> SUBSET Bits]
  BY MemberCountsAssumption DEF TypeOK

(* A position is used if and only if its bit is 1; the bits that are not
   members' are all 1 and lie behind the members. *)
LEMMA UsedBits ==
    ASSUME TypeOK, NEW p \in Nat
    PROVE  /\ p < numberOfMembers => (Hit(words, p) <=> p \in Members)
           /\ p < numberOfMembers => p \div WordSize \in DOMAIN words
           /\ ~(p < numberOfMembers) /\ p \div WordSize \in DOMAIN words => Hit(words, p)
<1>1. /\ p \div WordSize \in Nat /\ p % WordSize \in Bits
      /\ p = At(p \div WordSize, p % WordSize)
  BY PositionIs
<1>2. p < numberOfMembers => p \div WordSize \in 0..NWords - 1
  BY <1>1, MembersIn, SomeMembers
<1>3. DOMAIN words = 0..NWords - 1 /\ numberOfMembers \in Nat
  BY SomeMembers
<1>4. p < numberOfMembers <=> p \in 0..numberOfMembers - 1
  BY <1>3
<1>5. ASSUME ~(p < numberOfMembers), p \div WordSize \in DOMAIN words
      PROVE  Hit(words, p)
  <2>1. /\ LastBit # 0 /\ p \div WordSize = NWords - 1
        /\ p % WordSize \in LastBit..WordSize - 1
    BY <1>1, <1>3, <1>5, MembersIn, SomeMembers
  <2> QED
    BY <2>1, <1>5 DEF Hit, TypeOK
<1>6. QED
  BY <1>2, <1>3, <1>4, <1>5 DEF Hit, Members

(* bitset_next_used: the lowest used position from offset on *)
LEMMA NextUsedIs ==
    ASSUME TypeOK, NEW o \in 0..numberOfMembers - 1
    PROVE  /\ NextUsed(o) \in o..numberOfMembers
           /\ NextUsed(o) < numberOfMembers => NextUsed(o) \in Members
           /\ \A p \in o..NextUsed(o) - 1 : p \notin Members
<1> DEFINE r == NextUsed(o)
           n == numberOfMembers
<1>1. n \in Nat \ {0} /\ words \in [0..NWords - 1 -> SUBSET Bits]
  BY SomeMembers
<1>2. \/ /\ r = n
         /\ \A p \in Nat : o <= p => ~Hit(words, p)
      \/ /\ r \in Nat /\ o <= r /\ Hit(words, r)
         /\ \A p \in Nat : o <= p /\ Hit(words, p) => r <= p
  BY <1>1, NextOf DEF NextUsed
<1>3. r \in Nat /\ o <= r
  BY <1>1, <1>2
<1>4. r <= n
  <2>1. CASE Hit(words, n)
    BY <1>1, <1>2, <2>1
  <2>2. ASSUME ~Hit(words, n), r \in Nat, Hit(words, r), n < r  PROVE FALSE
    <3>1. n \div WordSize = FullWords /\ r \div WordSize \in 0..NWords - 1
          /\ r % WordSize \in Bits /\ r = At(r \div WordSize, r % WordSize)
      BY <1>1, <2>2, PositionIs DEF FullWords, Hit
    <3>2. LastBit # 0 /\ r \div WordSize = FullWords
      BY <1>1, <2>2, <3>1, MembersIn
    <3>3. n \div WordSize \in DOMAIN words
      BY <1>1, <3>1, <3>2
    <3> QED
      BY <1>1, <2>2, <3>3, UsedBits
  <2>3. QED
    BY <1>1, <1>2, <2>1, <2>2
<1>5. r < n => r \in Members
  <2>1. ASSUME r < n PROVE r \in Members
    <3>1. Hit(words, r)
      BY <1>1, <1>2, <2>1
    <3> QED
      BY <1>3, <2>1, <3>1, UsedBits
  <2> QED
    BY <2>1
<1>6. ASSUME NEW p \in o..r - 1, p \in Members  PROVE FALSE
  <2>1. p \in Nat /\ o <= p /\ p < r /\ p < n
    BY <1>1, <1>3, <1>4
  <2>2. Hit(words, p)
    BY <1>6, <2>1, UsedBits
  <2> QED
    BY <1>1, <1>2, <2>1, <2>2
<1>7. QED
  BY <1>1, <1>3, <1>4, <1>5, <1>6

(* bitset_next_free: the lowest free position from offset on; it never
   returns a bit behind the last member. *)
LEMMA NextFreeIs ==
    ASSUME TypeOK, NEW o \in 0..numberOfMembers
    PROVE  /\ NextFree(o) \in o..numberOfMembers
           /\ NextFree(o) < numberOfMembers => NextFree(o) \notin Members
           /\ \A p \in o..NextFree(o) - 1 : p \in Members
<1> DEFINE r == NextFree(o)
           n == numberOfMembers
           free == [i \in DOMAIN words |-> Bits \ words[i]]
<1>1. n \in Nat \ {0} /\ words \in [0..NWords - 1 -> SUBSET Bits]
  BY SomeMembers
<1>2. CASE o = n
  <2>1. r = n
    BY <1>1, <1>2 DEF NextFree
  <2> QED
    BY <1>1, <1>2, <2>1
<1>3. CASE o # n
  <2>1. o \in 0..n - 1
    BY <1>1, <1>3
  <2>2. r = FirstOf(From(free, o), o \div WordSize)
    BY <2>1, <1>1 DEF NextFree
  <2>3. free \in [0..NWords - 1 -> SUBSET Bits]
    BY <1>1
  <2>4. \A p \in Nat : Hit(free, p) <=> p < n /\ p \notin Members
    <3>1. SUFFICES ASSUME NEW p \in Nat
                   PROVE  Hit(free, p) <=> p < n /\ p \notin Members
      OBVIOUS
    <3>2. p % WordSize \in Bits
      BY PositionIs
    <3>3. Hit(free, p) <=> p \div WordSize \in DOMAIN words /\ ~Hit(words, p)
      BY <3>2 DEF Hit
    <3> QED
      BY <3>3, UsedBits
  <2> HIDE DEF free
  <2>5. \/ /\ r = n
           /\ \A p \in Nat : o <= p => ~Hit(free, p)
        \/ /\ r \in Nat /\ o <= r /\ Hit(free, r)
           /\ \A p \in Nat : o <= p /\ Hit(free, p) => r <= p
    BY <1>1, <2>1, <2>2, <2>3, NextOf
  <2>6. r \in o..n /\ (r < n => r \notin Members)
    BY <1>1, <2>4, <2>5
  <2>7. ASSUME NEW p \in o..r - 1, p \notin Members  PROVE FALSE
    <3>1. p \in Nat /\ o <= p /\ p < r /\ p < n
      BY <1>1, <2>6
    <3>2. Hit(free, p)
      BY <2>4, <2>7, <3>1
    <3> QED
      BY <1>1, <2>5, <3>1, <3>2
  <2> QED
    BY <2>6, <2>7
<1>4. QED
  BY <1>2, <1>3

-----------------------------------------------------------------------------
(* bitset_find_and_set_range *)

(* r is the first position from pos on where a range of `length' free
   positions starts, or the number of members. *)
FitsFrom(length, pos, r) ==
    /\ r \in pos..numberOfMembers
    /\ r < numberOfMembers => Positions!Fit(Members, numberOfMembers, length, r)
    /\ \A q \in pos..r - 1 : ~Positions!Fit(Members, numberOfMembers, length, q)

(* There is one for every position, and only one. *)
LEMMA FitsFromSome ==
    ASSUME TypeOK, NEW length \in Nat, NEW pos \in 0..numberOfMembers
    PROVE  /\ \E r : FitsFrom(length, pos, r)
           /\ \A r, s : FitsFrom(length, pos, r) /\ FitsFrom(length, pos, s) => r = s
<1> DEFINE n == numberOfMembers
           F(q) == Positions!Fit(Members, n, length, q)
           S == {q \in pos..n : q = n \/ F(q)}
<1>1. n \in Nat \ {0} /\ pos \in Nat /\ pos <= n
  BY SomeMembers
<1>2. S \in SUBSET Nat /\ S # {}
  BY <1>1
<1>3. PICK r \in S : \A q \in S : r <= q
  BY <1>2, LeastOf
<1>4. FitsFrom(length, pos, r)
  <2>1. r \in pos..n /\ (r < n => F(r))
    BY <1>1, <1>3
  <2>2. ASSUME NEW q \in pos..r - 1, F(q)  PROVE FALSE
    <3>1. q \in S /\ q < r
      BY <1>1, <2>1, <2>2
    <3> QED
      BY <1>3, <3>1, <1>1
  <2> QED
    BY <2>1, <2>2 DEF FitsFrom
<1>5. ASSUME NEW p, NEW s, FitsFrom(length, pos, p), FitsFrom(length, pos, s)
      PROVE  p = s
  <2> HIDE DEF F
  <2>1. /\ p \in pos..n /\ (p < n => F(p)) /\ \A q \in pos..p - 1 : ~F(q)
        /\ s \in pos..n /\ (s < n => F(s)) /\ \A q \in pos..s - 1 : ~F(q)
    BY <1>5 DEF FitsFrom, F
  <2>2. CASE p < s
    BY <1>1, <2>1, <2>2
  <2>3. CASE s < p
    BY <1>1, <2>1, <2>3
  <2> QED
    BY <1>1, <2>1, <2>2, <2>3
<1>6. QED
  BY <1>4, <1>5

(* The result of the search from the first position on is the one that
   BitsetSpec promises. *)
LEMMA FitsFromStart ==
    ASSUME TypeOK, NEW length \in 1..numberOfMembers, NEW r, FitsFrom(length, 0, r)
    PROVE  r = Positions!FirstFit(Members, numberOfMembers, length)
<1> DEFINE n == numberOfMembers
           F(q) == Positions!Fit(Members, n, length, q)
           First(q) == Positions!IsFirstFit(Members, n, length, q)
<1>1. n \in Nat \ {0} /\ length \in Nat
  BY SomeMembers
<1>2. r \in 0..n /\ (r < n => F(r)) /\ \A q \in 0..r - 1 : ~F(q)
  BY DEF FitsFrom
<1>3. \A q : First(q) <=> F(q) /\ \A s \in 0..q - 1 : ~F(s)
  BY DEF Positions!IsFirstFit
<1>4. Positions!FirstFit(Members, n, length) =
        IF \E q \in 0..n - 1 : First(q) THEN CHOOSE q \in 0..n - 1 : First(q) ELSE n
  BY DEF Positions!FirstFit
<1> HIDE DEF F, First
<1>5. CASE r < n
  <2>1. First(r) /\ r \in 0..n - 1
    BY <1>1, <1>2, <1>3, <1>5
  <2>2. ASSUME NEW q \in 0..n - 1, First(q)  PROVE q = r
    <3>1. F(q) /\ \A s \in 0..q - 1 : ~F(s)
      BY <1>3, <2>2
    <3>2. ~(q < r) /\ ~(r < q)
      BY <1>1, <1>2, <1>5, <3>1
    <3> QED
      BY <1>1, <1>2, <3>2
  <2>3. (CHOOSE q \in 0..n - 1 : First(q)) = r
    BY <2>1, <2>2
  <2> QED
    BY <1>4, <2>1, <2>3
<1>6. CASE r = n
  <2>1. \A q \in 0..n - 1 : ~First(q)
    BY <1>2, <1>3, <1>6
  <2> QED
    BY <1>4, <1>6, <2>1
<1>7. QED
  BY <1>1, <1>2, <1>5, <1>6

(* One round of the search: the run of free positions at pos is long enough,
   or nothing fits before the free position behind the used ones after it. *)
LEMMA SearchRound ==
    ASSUME TypeOK, NEW length \in 1..numberOfMembers, NEW pos \in 0..numberOfMembers - 1
    PROVE  /\ NextUsed(pos) \in 0..numberOfMembers
           /\ NextUsed(pos) - pos >= length => FitsFrom(length, pos, pos)
           /\ ~(NextUsed(pos) - pos >= length) =>
                /\ NextFree(NextUsed(pos)) \in pos + 1..numberOfMembers
                /\ \A r : FitsFrom(length, NextFree(NextUsed(pos)), r) =>
                             FitsFrom(length, pos, r)
<1> DEFINE n == numberOfMembers
           F(q) == Positions!Fit(Members, n, length, q)
<1>1. n \in Nat \ {0} /\ length \in Nat \ {0} /\ pos \in Nat /\ pos < n /\ length <= n
  BY SomeMembers
<1>2. PICK u : u = NextUsed(pos)
  OBVIOUS
<1>3. u \in pos..n /\ (u < n => u \in Members) /\ \A p \in pos..u - 1 : p \notin Members
  BY <1>2, NextUsedIs
<1>4. u \in 0..n
  BY <1>1, <1>3
<1>5. \A q : F(q) <=> q + length <= n /\ \A p \in q..q + length - 1 : p \notin Members
  BY DEF Positions!Fit
<1>6. \A a, r : FitsFrom(length, a, r) <=>
                r \in a..n /\ (r < n => F(r)) /\ \A q \in a..r - 1 : ~F(q)
  BY DEF FitsFrom
<1> HIDE DEF F
<1>7. CASE u - pos >= length
  <2>1. F(pos)
    BY <1>1, <1>3, <1>5, <1>7
  <2>2. FitsFrom(length, pos, pos)
    BY <1>1, <1>6, <2>1
  <2> QED
    BY <1>2, <1>4, <1>7, <2>2
<1>8. CASE ~(u - pos >= length)
  <2>1. PICK f : f = NextFree(u)
    OBVIOUS
  <2>2. f \in u..n /\ (f < n => f \notin Members) /\ \A p \in u..f - 1 : p \in Members
    BY <1>4, <2>1, NextFreeIs
  <2>3. f \in pos + 1..n
    <3>1. CASE u = n
      BY <1>1, <1>3, <2>2, <3>1
    <3>2. CASE u < n
      <4>1. f # u
        BY <1>1, <1>3, <2>2, <3>2
      <4> QED
        BY <1>1, <1>3, <2>2, <4>1
    <3> QED
      BY <1>1, <1>3, <3>1, <3>2
  <2>4. ASSUME NEW q \in pos..f - 1, F(q)  PROVE FALSE
    <3>1. q \in Nat /\ q + length <= n /\ \A p \in q..q + length - 1 : p \notin Members
      BY <1>1, <1>5, <2>3, <2>4
    <3>2. q \notin Members
      BY <1>1, <3>1
    <3>3. q < u
      BY <1>1, <1>4, <2>2, <2>3, <2>4, <3>1, <3>2
    <3>4. q <= u /\ u <= q + length - 1 /\ u < n
      BY <1>1, <1>4, <1>8, <2>3, <2>4, <3>1, <3>3
    <3>5. u \in q..q + length - 1 /\ u \in Members
      BY <1>1, <1>3, <1>4, <3>1, <3>4
    <3> QED
      BY <3>1, <3>5
  <2>5. ASSUME NEW r, FitsFrom(length, f, r)  PROVE FitsFrom(length, pos, r)
    <3>1. r \in f..n /\ (r < n => F(r)) /\ \A q \in f..r - 1 : ~F(q)
      BY <1>6, <2>5
    <3>2. r \in pos..n
      BY <1>1, <2>3, <3>1
    <3>3. \A q \in pos..r - 1 : ~F(q)
      BY <1>1, <2>3, <2>4, <3>1
    <3> QED
      BY <1>6, <3>1, <3>2, <3>3
  <2> QED
    BY <1>2, <1>4, <1>8, <2>1, <2>3, <2>5
<1>9. QED
  BY <1>7, <1>8

(* The search by runs finds the lowest range that fits.  The function that
   gives every position the first fit from there on solves its recursion, and
   as every round moves forward, no other function does. *)
LEMMA FirstRunIs ==
    ASSUME TypeOK, NEW length \in 1..numberOfMembers
    PROVE  FirstRun(length) = Positions!FirstFit(Members, numberOfMembers, length)
<1> DEFINE n == numberOfMembers
           Body(s) == [pos \in 0..n |->
                         IF pos = n THEN n
                         ELSE IF NextUsed(pos) - pos >= length THEN pos
                         ELSE s[NextFree(NextUsed(pos))]]
           G == [pos \in 0..n |-> CHOOSE r : FitsFrom(length, pos, r)]
           search == CHOOSE s : s = Body(s)
<1>1. n \in Nat \ {0} /\ length \in Nat \ {0}
  BY SomeMembers
<1>2. FirstRun(length) = search[NextFree(0)]
  BY DEF FirstRun
<1>3. \A pos \in 0..n : FitsFrom(length, pos, G[pos])
  <2>1. SUFFICES ASSUME NEW pos \in 0..n  PROVE FitsFrom(length, pos, G[pos])
    OBVIOUS
  <2>2. PICK r : FitsFrom(length, pos, r)
    BY <1>1, FitsFromSome
  <2>3. G[pos] = CHOOSE q : FitsFrom(length, pos, q)
    OBVIOUS
  <2> HIDE DEF G
  <2> QED
    BY <2>2, <2>3
<1>4. \A pos \in 0..n : \A r : FitsFrom(length, pos, r) => r = G[pos]
  <2> HIDE DEF G
  <2> QED
    BY <1>1, <1>3, FitsFromSome
(* What a round gives, in terms of G *)
<1>5. \A pos \in 0..n :
        G[pos] = IF pos = n THEN n
                 ELSE IF NextUsed(pos) - pos >= length THEN pos
                 ELSE G[NextFree(NextUsed(pos))]
  <2> HIDE DEF G
  <2>1. SUFFICES ASSUME NEW pos \in 0..n
                 PROVE  G[pos] = IF pos = n THEN n
                                 ELSE IF NextUsed(pos) - pos >= length THEN pos
                                 ELSE G[NextFree(NextUsed(pos))]
    OBVIOUS
  <2>2. CASE pos = n
    <3>1. G[pos] \in pos..n
      BY <1>3 DEF FitsFrom
    <3> QED
      BY <1>1, <2>2, <3>1
  <2>3. CASE pos # n
    <3>1. pos \in 0..n - 1
      BY <1>1, <2>3
    <3>2. CASE NextUsed(pos) - pos >= length
      BY <1>4, <2>3, <3>1, <3>2, SearchRound
    <3>3. CASE ~(NextUsed(pos) - pos >= length)
      <4>1. NextFree(NextUsed(pos)) \in pos + 1..n
        BY <3>1, <3>3, SearchRound
      <4>2. NextFree(NextUsed(pos)) \in 0..n
        BY <1>1, <3>1, <4>1
      <4>3. FitsFrom(length, pos, G[NextFree(NextUsed(pos))])
        BY <1>3, <3>1, <3>3, <4>2, SearchRound
      <4> QED
        BY <1>4, <2>3, <3>3, <4>3
    <3> QED
      BY <3>2, <3>3
  <2> QED
    BY <2>2, <2>3
<1>6. G = Body(G)
  <2>1. Body(G) = [pos \in 0..n |-> G[pos]]
    <3> HIDE DEF G
    <3> QED
      BY <1>5
  <2> QED
    BY <2>1
<1>7. search = Body(search)
  <2> HIDE DEF Body, G
  <2> QED
    BY <1>6 DEF search
<1>8. ASSUME NEW s, s = Body(s)
      PROVE  \A pos \in 0..n : s[pos] = G[pos]
  <2> DEFINE Bad == {d \in 0..n : s[n - d] # G[n - d]}
  <2>1. \A pos \in 0..n :
          s[pos] = IF pos = n THEN n
                   ELSE IF NextUsed(pos) - pos >= length THEN pos
                   ELSE s[NextFree(NextUsed(pos))]
    <3>1. ASSUME NEW pos \in 0..n
          PROVE  Body(s)[pos] = IF pos = n THEN n
                                ELSE IF NextUsed(pos) - pos >= length THEN pos
                                ELSE s[NextFree(NextUsed(pos))]
      OBVIOUS
    <3> HIDE DEF Body
    <3> QED
      BY <1>8, <3>1
  <2> HIDE DEF G
  <2>2. ASSUME Bad # {}  PROVE FALSE
    <3>1. PICK d \in Bad : \A e \in Bad : d <= e
      <4>1. Bad \in SUBSET Nat
        BY <1>1
      <4> HIDE DEF Bad
      <4> QED
        BY <2>2, <4>1, LeastOf
    <3>2. PICK pos \in 0..n : pos = n - d /\ s[pos] # G[pos]
      BY <1>1, <3>1
    <3>3. pos # n /\ ~(NextUsed(pos) - pos >= length)
      BY <1>5, <2>1, <3>2
    <3>4. PICK f \in pos + 1..n : f = NextFree(NextUsed(pos))
      BY <1>1, <3>3, SearchRound
    <3>5. s[f] # G[f]
      BY <1>5, <2>1, <3>2, <3>3, <3>4
    <3>6. n - f \in 0..n /\ n - (n - f) = f /\ n - f < d
      BY <1>1, <3>1, <3>2, <3>4
    <3>7. n - f \in Bad
      BY <3>5, <3>6
    <3> QED
      BY <1>1, <3>1, <3>6, <3>7
  <2>3. ASSUME NEW pos \in 0..n  PROVE s[pos] = G[pos]
    <3>1. n - pos \in 0..n /\ n - (n - pos) = pos
      BY <1>1
    <3> QED
      BY <2>2, <3>1
  <2> QED
    BY <2>3
<1>9. PICK f \in 0..n : f = NextFree(0)
  BY <1>1, NextFreeIs
<1>10. FirstRun(length) = G[f]
  <2> HIDE DEF Body, G, search
  <2> QED
    BY <1>2, <1>7, <1>8, <1>9
<1>11. FitsFrom(length, 0, G[f])
  <2> HIDE DEF G
  <2>1. /\ \A p \in 0..f - 1 : p \in Members
        /\ G[f] \in f..n
        /\ G[f] < n => Positions!Fit(Members, n, length, G[f])
        /\ \A q \in f..G[f] - 1 : ~Positions!Fit(Members, n, length, q)
    BY <1>1, <1>3, <1>9, NextFreeIs DEF FitsFrom
  <2>2. \A q \in 0..f - 1 : ~Positions!Fit(Members, n, length, q)
    <3>1. ASSUME NEW q \in 0..f - 1, Positions!Fit(Members, n, length, q)  PROVE FALSE
      <4>1. q \in q..q + length - 1 /\ q \in Members
        BY <1>1, <2>1
      <4> QED
        BY <3>1, <4>1 DEF Positions!Fit
    <3> QED
      BY <3>1
  <2>3. G[f] \in 0..n /\ \A q \in 0..G[f] - 1 : q \in 0..f - 1 \/ q \in f..G[f] - 1
    BY <1>1, <2>1
  <2> QED
    BY <2>1, <2>2, <2>3 DEF FitsFrom
<1>12. QED
  <2> HIDE DEF G
  <2> QED
    BY <1>10, <1>11, FitsFromStart

(* The first free position is what a search for one position finds. *)
LEMMA NextFreeFits ==
    ASSUME TypeOK
    PROVE  NextFree(0) = Positions!FirstFit(Members, numberOfMembers, 1)
<1> DEFINE n == numberOfMembers
<1>1. n \in Nat \ {0}
  BY SomeMembers
<1>2. PICK f : f = NextFree(0)
  OBVIOUS
<1>3. f \in 0..n /\ (f < n => f \notin Members) /\ \A p \in 0..f - 1 : p \in Members
  BY <1>1, <1>2, NextFreeIs
<1>4. \A q \in 0..n : Positions!Fit(Members, n, 1, q) <=> q + 1 <= n /\ q \notin Members
  <2>1. \A q \in 0..n : q..q + 1 - 1 = {q}
    BY <1>1
  <2> QED
    BY <2>1 DEF Positions!Fit
<1>5. FitsFrom(1, 0, f)
  BY <1>1, <1>3, <1>4 DEF FitsFrom
<1>6. QED
  BY <1>1, <1>2, <1>5, FitsFromStart

-----------------------------------------------------------------------------
(* Steps *)

(* The bits of the mask, by position *)
LEMMA MaskBits ==
    ASSUME TypeOK, NEW o \in Nat, NEW l \in Nat \ {0}, o + l <= numberOfMembers
    PROVE  /\ \A i \in DOMAIN words : RangeMask(i, o, l) \subseteq Bits
           /\ \A p \in 0..numberOfMembers - 1 :
                p % WordSize \in RangeMask(p \div WordSize, o, l) <=> p \in Positions!Span(o, l)
           /\ LastBit # 0 =>
                RangeMask(NWords - 1, o, l) \cap LastBit..WordSize - 1 = {}
<1> DEFINE n == numberOfMembers
<1>1. n \in Nat \ {0} /\ DOMAIN words = 0..NWords - 1
  BY SomeMembers
<1>2. \A i \in DOMAIN words : RangeMask(i, o, l) \subseteq Bits
  BY <1>1, RangeMaskIs
<1>3. ASSUME NEW p \in 0..n - 1
      PROVE  p % WordSize \in RangeMask(p \div WordSize, o, l) <=> p \in Positions!Span(o, l)
  <2>1. /\ p \in Nat /\ p \div WordSize \in Nat /\ p % WordSize \in Bits
        /\ p = At(p \div WordSize, p % WordSize)
    BY PositionIs
  <2>2. p % WordSize \in RangeMask(p \div WordSize, o, l) <=> o <= p /\ p < o + l
    BY <2>1, RangeMaskIs
  <2> QED
    BY <2>1, <2>2 DEF Positions!Span
<1>4. ASSUME LastBit # 0, NEW b \in RangeMask(NWords - 1, o, l), b \in LastBit..WordSize - 1
      PROVE  FALSE
  <2>1. /\ NWords - 1 = FullWords /\ FullWords \in Nat /\ LastBit \in Bits
        /\ n = At(FullWords, LastBit)
    BY <1>1, <1>4, NWordsIs
  <2>2. b \in Bits /\ At(FullWords, b) < o + l
    BY <1>4, <2>1, RangeMaskIs
  <2>3. LastBit <= b
    BY <1>4, <2>1, WordSizeAssumption DEF Bits
  <2>4. n <= At(FullWords, b) /\ At(FullWords, b) \in Nat
    BY <2>1, <2>2, <2>3, AtOrder, AtIs
  <2> QED
    BY <1>1, <2>2, <2>4
<1>5. QED
  BY <1>2, <1>3, <1>4

(* TypeOK but for the result, and the set of the members *)
LEMMA WordsStep ==
    ASSUME TypeOK, numberOfMembers' = numberOfMembers,
           words' \in [0..NWords - 1 -> SUBSET Bits],
           LastBit # 0 => LastBit..WordSize - 1 \subseteq words'[NWords - 1],
           result' \in 0..numberOfMembers
    PROVE  /\ TypeOK'
           /\ Members' = {p \in 0..numberOfMembers - 1 : p % WordSize \in words'[p \div WordSize]}
<1>1. FullWords' = FullWords /\ LastBit' = LastBit
  BY DEF FullWords, LastBit
<1>2. NWords' = NWords
  BY <1>1 DEF NWords
<1>3. QED
  BY <1>1, <1>2 DEF TypeOK, Members

(* Setting a range adds its positions. *)
LEMMA SetStep ==
    ASSUME TypeOK, NEW o \in Nat, NEW l \in Nat \ {0}, o + l <= numberOfMembers,
           Set(o, l), numberOfMembers' = numberOfMembers, result' \in 0..numberOfMembers
    PROVE  TypeOK' /\ Members' = Members \cup Positions!Span(o, l)
<1> DEFINE n == numberOfMembers
<1>1. n \in Nat \ {0} /\ words \in [0..NWords - 1 -> SUBSET Bits] /\ NWords \in Nat \ {0}
  BY SomeMembers, NWordsIs
<1>2. words' = [i \in 0..NWords - 1 |-> words[i] \cup RangeMask(i, o, l)]
  BY <1>1 DEF Set
<1>3. words' \in [0..NWords - 1 -> SUBSET Bits]
  BY <1>1, <1>2, MaskBits
<1>4. LastBit # 0 => LastBit..WordSize - 1 \subseteq words'[NWords - 1]
  BY <1>1, <1>2 DEF TypeOK
<1>5. TypeOK' /\ Members' = {p \in 0..n - 1 : p % WordSize \in words'[p \div WordSize]}
  BY <1>3, <1>4, WordsStep
<1>6. \A p \in 0..n - 1 : p % WordSize \in words'[p \div WordSize] <=>
                            p \in Members \/ p \in Positions!Span(o, l)
  <2>1. SUFFICES ASSUME NEW p \in 0..n - 1
                 PROVE  p % WordSize \in words'[p \div WordSize] <=>
                          p \in Members \/ p \in Positions!Span(o, l)
    OBVIOUS
  <2>2. p \div WordSize \in 0..NWords - 1
    BY <1>1, UsedBits
  <2>3. p % WordSize \in words'[p \div WordSize] <=>
          p % WordSize \in words[p \div WordSize] \/ p % WordSize \in RangeMask(p \div WordSize, o, l)
    BY <1>2, <2>2
  <2> QED
    BY <2>3, MaskBits DEF Members
<1>7. Members \subseteq 0..n - 1 /\ Positions!Span(o, l) \subseteq 0..n - 1
  BY <1>1 DEF Members, Positions!Span
<1>8. QED
  BY <1>5, <1>6, <1>7

(* Clearing a range takes its positions away, and nothing behind the last
   member. *)
LEMMA ClearStep ==
    ASSUME TypeOK, NEW o \in Nat, NEW l \in Nat \ {0}, o + l <= numberOfMembers,
           words' = [i \in DOMAIN words |-> words[i] \ RangeMask(i, o, l)],
           numberOfMembers' = numberOfMembers, result' \in 0..numberOfMembers
    PROVE  TypeOK' /\ Members' = Members \ Positions!Span(o, l)
<1> DEFINE n == numberOfMembers
<1>1. n \in Nat \ {0} /\ words \in [0..NWords - 1 -> SUBSET Bits] /\ NWords \in Nat \ {0}
  BY SomeMembers, NWordsIs
<1>2. words' = [i \in 0..NWords - 1 |-> words[i] \ RangeMask(i, o, l)]
  BY <1>1
<1>3. words' \in [0..NWords - 1 -> SUBSET Bits]
  BY <1>1, <1>2
<1>4. LastBit # 0 => LastBit..WordSize - 1 \subseteq words'[NWords - 1]
  <2>1. words'[NWords - 1] = words[NWords - 1] \ RangeMask(NWords - 1, o, l)
    BY <1>1, <1>2
  <2>2. ASSUME LastBit # 0
        PROVE  /\ LastBit..WordSize - 1 \subseteq words[NWords - 1]
               /\ RangeMask(NWords - 1, o, l) \cap LastBit..WordSize - 1 = {}
    BY <2>2, MaskBits DEF TypeOK
  <2> QED
    BY <2>1, <2>2
<1>5. TypeOK' /\ Members' = {p \in 0..n - 1 : p % WordSize \in words'[p \div WordSize]}
  BY <1>3, <1>4, WordsStep
<1>6. \A p \in 0..n - 1 : p % WordSize \in words'[p \div WordSize] <=>
                            p \in Members /\ p \notin Positions!Span(o, l)
  <2>1. SUFFICES ASSUME NEW p \in 0..n - 1
                 PROVE  p % WordSize \in words'[p \div WordSize] <=>
                          p \in Members /\ p \notin Positions!Span(o, l)
    OBVIOUS
  <2>2. p \div WordSize \in 0..NWords - 1
    BY <1>1, UsedBits
  <2>3. p % WordSize \in words'[p \div WordSize] <=>
          p % WordSize \in words[p \div WordSize] /\ p % WordSize \notin RangeMask(p \div WordSize, o, l)
    BY <1>2, <2>2
  <2> QED
    BY <2>3, MaskBits DEF Members
<1>7. Members \subseteq 0..n - 1
  BY <1>1 DEF Members
<1>8. QED
  BY <1>5, <1>6, <1>7

(* A result below the number of members is where a range that fits starts. *)
LEMMA FoundFits ==
    ASSUME TypeOK, NEW l \in 1..numberOfMembers, NEW r,
           r = Positions!FirstFit(Members, numberOfMembers, l)
    PROVE  r \in 0..numberOfMembers /\ (r < numberOfMembers => r + l <= numberOfMembers)
<1>1. numberOfMembers \in Nat \ {0}
  BY SomeMembers
<1>2. PICK q : FitsFrom(l, 0, q)
  BY <1>1, FitsFromSome
<1>3. q = r
  BY <1>2, FitsFromStart
<1>4. QED
  BY <1>2, <1>3 DEF FitsFrom, Positions!Fit

(* What a step keeps and does, for both theorems *)
StepOK == TypeOK' /\ [Positions!Next]_<<numberOfMembers, Members, result>>

LEMMA SetRangeStep ==
    ASSUME TypeOK, NEW l \in 1..numberOfMembers, NEW o \in 0..numberOfMembers - 1,
           SetRange(o, l)
    PROVE  StepOK
<1>1. /\ numberOfMembers \in Nat \ {0} /\ words \in [0..NWords - 1 -> SUBSET Bits]
      /\ result \in 0..numberOfMembers /\ o \in Nat /\ l \in Nat \ {0}
  BY SomeMembers DEF TypeOK
<1>2. /\ o + l <= numberOfMembers /\ Set(o, l)
      /\ numberOfMembers' = numberOfMembers /\ result' = result
      /\ \A i \in DOMAIN words : words[i] \cap RangeMask(i, o, l) = {}
  BY DEF SetRange, InRange
<1>3. TypeOK' /\ Members' = Members \cup Positions!Span(o, l)
  BY <1>1, <1>2, SetStep
<1>4. ASSUME NEW p \in Positions!Span(o, l)
      PROVE  p \in 0..numberOfMembers - 1 /\ p \notin Members
  <2>1. p \in 0..numberOfMembers - 1
    BY <1>1, <1>2 DEF Positions!Span
  <2>2. p % WordSize \in RangeMask(p \div WordSize, o, l) /\ p \div WordSize \in DOMAIN words
    BY <1>1, <1>2, <2>1, MaskBits, UsedBits
  <2> QED
    BY <1>2, <2>1, <2>2 DEF Members
<1>5. Positions!SetRange(o, l)
  BY <1>2, <1>3, <1>4 DEF Positions!SetRange
<1>6. QED
  BY <1>2, <1>3, <1>5 DEF StepOK, Positions!Next

LEMMA ClearRangeStep ==
    ASSUME TypeOK, NEW l \in 1..numberOfMembers, NEW o \in 0..numberOfMembers - 1,
           ClearRange(o, l)
    PROVE  StepOK
<1>1. /\ numberOfMembers \in Nat \ {0} /\ words \in [0..NWords - 1 -> SUBSET Bits]
      /\ result \in 0..numberOfMembers /\ o \in Nat /\ l \in Nat \ {0}
  BY SomeMembers DEF TypeOK
<1>2. /\ o + l <= numberOfMembers
      /\ words' = [i \in DOMAIN words |-> words[i] \ RangeMask(i, o, l)]
      /\ numberOfMembers' = numberOfMembers /\ result' = result
      /\ \A i \in DOMAIN words : RangeMask(i, o, l) \subseteq words[i]
  BY DEF ClearRange, InRange
<1>3. TypeOK' /\ Members' = Members \ Positions!Span(o, l)
  BY <1>1, <1>2, ClearStep
<1>4. ASSUME NEW p \in Positions!Span(o, l)
      PROVE  p \in Members
  <2>1. p \in 0..numberOfMembers - 1
    BY <1>1, <1>2 DEF Positions!Span
  <2>2. p % WordSize \in RangeMask(p \div WordSize, o, l) /\ p \div WordSize \in DOMAIN words
    BY <1>1, <1>2, <2>1, MaskBits, UsedBits
  <2> QED
    BY <1>2, <2>1, <2>2 DEF Members
<1>5. Positions!ClearRange(o, l)
  BY <1>2, <1>3, <1>4 DEF Positions!ClearRange
<1>6. QED
  BY <1>2, <1>3, <1>5 DEF StepOK, Positions!Next

(* A search that takes what it finds: both searches are one *)
LEMMA FoundStep ==
    ASSUME TypeOK, NEW l \in 1..numberOfMembers,
           result' = Positions!FirstFit(Members, numberOfMembers, l),
           IF result' < numberOfMembers THEN Set(result', l) ELSE UNCHANGED words,
           numberOfMembers' = numberOfMembers
    PROVE  StepOK
<1>1. /\ numberOfMembers \in Nat \ {0} /\ words \in [0..NWords - 1 -> SUBSET Bits]
      /\ l \in Nat \ {0}
  BY SomeMembers
<1>2. PICK r : r = result'
  OBVIOUS
<1>3. r \in 0..numberOfMembers /\ (r < numberOfMembers => r + l <= numberOfMembers)
  BY <1>2, FoundFits
<1>4. CASE r < numberOfMembers
  <2>1. Set(r, l) /\ r \in Nat
    BY <1>2, <1>3, <1>4
  <2>2. TypeOK' /\ Members' = Members \cup Positions!Span(r, l)
    BY <1>1, <1>2, <1>3, <1>4, <2>1, SetStep
  <2>3. Positions!FindAndSetRange(l)
    BY <1>2, <1>4, <2>2 DEF Positions!FindAndSetRange
  <2> QED
    BY <2>2, <2>3 DEF StepOK, Positions!Next
<1>5. CASE ~(r < numberOfMembers)
  <2>1. words' = words
    BY <1>2, <1>5
  <2>2. /\ TypeOK'
        /\ Members' = {p \in 0..numberOfMembers - 1 : p % WordSize \in words'[p \div WordSize]}
    BY <1>1, <1>2, <1>3, <2>1, WordsStep DEF TypeOK
  <2>3. Members' = Members
    BY <2>1, <2>2 DEF Members
  <2>4. Positions!FindAndSetRange(l)
    BY <1>2, <1>5, <2>3 DEF Positions!FindAndSetRange
  <2> QED
    BY <2>2, <2>4 DEF StepOK, Positions!Next
<1>6. QED
  BY <1>4, <1>5

LEMMA BitsetInit == Init => TypeOK /\ Positions!Init
<1> SUFFICES ASSUME Init  PROVE TypeOK /\ Positions!Init
  OBVIOUS
<1>1. numberOfMembers \in MemberCounts /\ numberOfMembers \in Nat \ {0} /\ result = 0
  BY MemberCountsAssumption DEF Init
<1>2. /\ FullWords \in Nat /\ LastBit \in Bits /\ NWords \in Nat \ {0}
      /\ numberOfMembers = At(FullWords, LastBit)
      /\ NWords = IF LastBit # 0 THEN FullWords + 1 ELSE FullWords
  BY <1>1, NWordsIs
<1>3. words = [i \in 0..NWords - 1 |-> IF i = FullWords THEN LastBit..WordSize - 1 ELSE {}]
  BY DEF Init, MarkInvalid
<1>4. LastBit..WordSize - 1 \subseteq Bits
  BY <1>2, WordSizeAssumption DEF Bits
<1>5. TypeOK
  <2>1. words \in [0..NWords - 1 -> SUBSET Bits]
    BY <1>3, <1>4
  <2>2. LastBit # 0 => LastBit..WordSize - 1 \subseteq words[NWords - 1]
    BY <1>2, <1>3
  <2> QED
    BY <1>1, <2>1, <2>2 DEF TypeOK
<1>6. ASSUME NEW p \in Members  PROVE FALSE
  <2>1. /\ p \in Nat /\ p < numberOfMembers /\ p \div WordSize \in Nat /\ p % WordSize \in Bits
        /\ p = At(p \div WordSize, p % WordSize)
    BY <1>1, PositionIs DEF Members
  <2>2. p \div WordSize \in 0..NWords - 1
    BY <1>1, <2>1, MembersIn
  <2>3. p \div WordSize = FullWords /\ p % WordSize \in LastBit..WordSize - 1
    BY <1>3, <1>6, <2>2 DEF Members
  <2>4. ~(p % WordSize < LastBit)
    BY <1>2, <2>1, <2>3, WordSizeAssumption DEF Bits
  <2>5. At(p \div WordSize, p % WordSize) < At(FullWords, LastBit) <=>
          p \div WordSize < FullWords \/ (p \div WordSize = FullWords /\ p % WordSize < LastBit)
    BY <1>2, <2>1, AtOrder
  <2> QED
    BY <1>2, <2>1, <2>3, <2>4, <2>5
<1>7. QED
  BY <1>1, <1>5, <1>6 DEF Positions!Init

LEMMA BitsetStep == TypeOK /\ [Next]_vars => StepOK
<1> SUFFICES ASSUME TypeOK, [Next]_vars  PROVE StepOK
  OBVIOUS
<1>1. numberOfMembers \in Nat \ {0}
  BY SomeMembers
<1>2. CASE UNCHANGED vars
  <2>1. numberOfMembers' = numberOfMembers /\ words' = words /\ result' = result
    BY <1>2 DEF vars
  <2>2. /\ TypeOK'
        /\ Members' = {p \in 0..numberOfMembers - 1 : p % WordSize \in words'[p \div WordSize]}
    BY <2>1, WordsStep DEF TypeOK
  <2> QED
    BY <2>1, <2>2 DEF StepOK, Members
<1>3. CASE FindAndSet
  <2>1. 1 \in 1..numberOfMembers /\ result' = Positions!FirstFit(Members, numberOfMembers, 1)
    BY <1>1, <1>3, NextFreeFits DEF FindAndSet
  <2> QED
    BY <1>3, <2>1, FoundStep DEF FindAndSet
<1>4. ASSUME NEW l \in 1..numberOfMembers, FindAndSetRange(l)
      PROVE  StepOK
  <2>1. result' = Positions!FirstFit(Members, numberOfMembers, l)
    BY <1>4, FirstRunIs DEF FindAndSetRange
  <2> QED
    BY <1>4, <2>1, FoundStep DEF FindAndSetRange
<1>5. ASSUME NEW l \in 1..numberOfMembers, NEW o \in 0..numberOfMembers - 1,
             SetRange(o, l) \/ ClearRange(o, l)
      PROVE  StepOK
  BY <1>5, SetRangeStep, ClearRangeStep
<1>6. QED
  BY <1>2, <1>3, <1>4, <1>5 DEF Next

-----------------------------------------------------------------------------
(* The words hold bits and those behind the last member stay 1, whatever
   ranges are set and cleared. *)
THEOREM BitsetTypes == Spec => []TypeOK
<1>1. Init => TypeOK
  BY BitsetInit
<1>2. TypeOK /\ [Next]_vars => TypeOK'
  BY BitsetStep DEF StepOK
<1>3. QED
  BY <1>1, <1>2, PTL DEF Spec

(* The bitset does word by word what BitsetSpec says of positions: whatever
   the word size, the number of members and the alignment of the ranges, an
   operation changes exactly the positions it was given and a search returns
   the lowest range that fits. *)
THEOREM BitsetRefinement == Spec => ImplementsBitsetSpec
<1>1. Init => Positions!Init
  BY BitsetInit
<1>2. TypeOK /\ [Next]_vars => [Positions!Next]_<<numberOfMembers, Members, result>>
  BY BitsetStep DEF StepOK
<1>3. QED
  BY <1>1, <1>2, BitsetTypes, PTL DEF Spec, ImplementsBitsetSpec, Positions!Spec
=============================================================================
