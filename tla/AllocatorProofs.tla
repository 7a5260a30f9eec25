-------------------------- MODULE AllocatorProofs ---------------------------
(***************************************************************************)
(* First: no page of the allocator has two owners, whatever the number of  *)
(* page managers and pages and whatever requests fail on the way.          *)
(*                                                                         *)
(* The argument is about descriptors only.  OneOwner(O, used, own) says it *)
(* for lists of descriptors O[m], a bitset `used' and the allocator's own  *)
(* pages; the lemmas say what gaining, losing and filling a page do to it, *)
(* and that the functions run under the lock return what they need.        *)
(***************************************************************************)
EXTENDS Allocator, FiniteSetTheorems, SequenceTheorems, TLAPS

Descriptor == [id : Nat, order : Nat \ {0}, used : Int]

AllocatorState == [bitset : SUBSET PageIds, maintenance : SUBSET PageIds,
                   freeObjects : Int, nAllocated : Int, highWatermark : Int]

Spans(list) == UNION {Span(list[i]) : i \in DOMAIN list}

OneOwner(O, used, own) ==
    /\ used = own \cup UNION {Spans(O[m]) : m \in Managers}
    /\ \A m \in Managers : \A i \in DOMAIN O[m] : Span(O[m][i]) \cap own = {}
    /\ \A m, n \in Managers : \A i \in DOMAIN O[m], j \in DOMAIN O[n] :
          <<m, i>> # <<n, j>> => Span(O[m][i]) \cap Span(O[n][j]) = {}

Lists == [Managers -> Seq(Descriptor)]

(* Where the elements of a concatenation come from *)
LEMMA ConcatElements ==
    ASSUME NEW s \in Seq(Descriptor), NEW t \in Seq(Descriptor)
    PROVE  /\ s \o t \in Seq(Descriptor)
           /\ Len(s) \in Nat
           /\ \A i \in DOMAIN s : i \in DOMAIN (s \o t) /\ (s \o t)[i] = s[i]
           /\ \A i \in DOMAIN t : /\ Len(s) + i \in DOMAIN (s \o t)
                                  /\ (s \o t)[Len(s) + i] = t[i]
           /\ \A i \in DOMAIN (s \o t) :
                 \/ i \in DOMAIN s
                 \/ i - Len(s) \in DOMAIN t /\ (s \o t)[i] = t[i - Len(s)]
<1>1. /\ Len(s) \in Nat /\ Len(t) \in Nat
      /\ DOMAIN s = 1..Len(s) /\ DOMAIN t = 1..Len(t)
  BY LenProperties
<1>2. /\ s \o t \in Seq(Descriptor)
      /\ Len(s \o t) = Len(s) + Len(t)
      /\ \A i \in 1..Len(s) + Len(t) :
            (s \o t)[i] = IF i <= Len(s) THEN s[i] ELSE t[i - Len(s)]
  BY ConcatProperties
<1>3. DOMAIN (s \o t) = 1..Len(s) + Len(t)
  BY <1>2, LenProperties
<1>4. QED
  BY <1>1, <1>2, <1>3

(* A list of the same length with the same spans, in front of the same rest *)
LEMMA ConcatSameSpans ==
    ASSUME NEW s \in Seq(Descriptor), NEW r \in Seq(Descriptor),
           NEW t \in Seq(Descriptor), Len(r) = Len(s),
           \A i \in DOMAIN s : Span(r[i]) = Span(s[i])
    PROVE  /\ DOMAIN (r \o t) = DOMAIN (s \o t)
           /\ \A i \in DOMAIN (s \o t) : Span((r \o t)[i]) = Span((s \o t)[i])
<1>1. /\ Len(s) \in Nat /\ Len(t) \in Nat /\ DOMAIN s = 1..Len(s)
  BY LenProperties
<1>2. /\ s \o t \in Seq(Descriptor)
      /\ Len(s \o t) = Len(s) + Len(t)
      /\ \A i \in 1..Len(s) + Len(t) :
            (s \o t)[i] = IF i <= Len(s) THEN s[i] ELSE t[i - Len(s)]
  BY ConcatProperties
<1>3. /\ r \o t \in Seq(Descriptor)
      /\ Len(r \o t) = Len(r) + Len(t)
      /\ \A i \in 1..Len(r) + Len(t) :
            (r \o t)[i] = IF i <= Len(r) THEN r[i] ELSE t[i - Len(r)]
  BY ConcatProperties
<1>4. DOMAIN (s \o t) = 1..Len(s) + Len(t) /\ DOMAIN (r \o t) = 1..Len(s) + Len(t)
  BY <1>2, <1>3, LenProperties
<1>5. QED
  BY <1>1, <1>2, <1>3, <1>4

(* Concatenation of descriptor lists is associative: three lists that a
   split joins again are the list that was split. *)
LEMMA ConcatThree ==
    ASSUME NEW s \in Seq(Descriptor), NEW t \in Seq(Descriptor),
           NEW u \in Seq(Descriptor)
    PROVE  (s \o t) \o u = s \o (t \o u)
  BY ConcatAssociative

-----------------------------------------------------------------------------
(* What happens to the lists of descriptors *)

(* A manager gains the page p, the allocator the pages N for itself. *)
LEMMA GainPage ==
    ASSUME NEW O \in Lists, NEW used, NEW own, OneOwner(O, used, own),
           NEW m \in Managers, NEW p \in Descriptor, NEW N,
           N \cap used = {}, Span(p) \cap (used \cup N) = {}
    PROVE  OneOwner([O EXCEPT ![m] = <<p>> \o @],
                    used \cup N \cup Span(p), own \cup N)
<1> DEFINE Q == [O EXCEPT ![m] = <<p>> \o @]
<1>1. /\ \A n \in Managers : DOMAIN O[n] = 1..Len(O[n]) /\ Len(O[n]) \in Nat
      /\ \A n \in Managers \ {m} : Q[n] = O[n]
      /\ Q[m] = <<p>> \o O[m]
  BY LenProperties DEF Lists
<1>2. /\ DOMAIN Q[m] = 1..Len(O[m]) + 1
      /\ Q[m][1] = p
      /\ \A i \in 2..Len(O[m]) + 1 : i - 1 \in DOMAIN O[m] /\ Q[m][i] = O[m][i - 1]
  <2>1. O[m] \in Seq(Descriptor) /\ <<p>> \in Seq(Descriptor) /\ Len(<<p>>) = 1
    BY DEF Lists
  <2>2. /\ <<p>> \o O[m] \in Seq(Descriptor)
        /\ Len(<<p>> \o O[m]) = 1 + Len(O[m])
        /\ \A i \in 1..1 + Len(O[m]) : (<<p>> \o O[m])[i] =
                IF i <= 1 THEN <<p>>[i] ELSE O[m][i - 1]
    BY <2>1, ConcatProperties
  <2>3. DOMAIN (<<p>> \o O[m]) = 1..1 + Len(O[m])
    BY <2>2, LenProperties
  <2>4. QED
    BY <1>1, <2>2, <2>3
<1>3. \A n \in Managers : \A i \in DOMAIN O[n] : Span(O[n][i]) \subseteq used
  BY DEF OneOwner, Spans
<1>4. Spans(Q[m]) = Span(p) \cup Spans(O[m])
  <2>1. \A i \in DOMAIN O[m] : i + 1 \in 2..Len(O[m]) + 1 /\ Q[m][i + 1] = O[m][i]
    BY <1>1, <1>2
  <2>2. \A i \in DOMAIN Q[m] : i = 1 \/ i \in 2..Len(O[m]) + 1
    BY <1>1, <1>2
  <2>3. 2..Len(O[m]) + 1 \subseteq DOMAIN Q[m] /\ 1 \in DOMAIN Q[m]
    BY <1>1, <1>2
  <2>4. ASSUME NEW x
        PROVE  x \in Spans(Q[m]) <=> x \in Span(p) \/ x \in Spans(O[m])
    <3>1. CASE x \in Spans(Q[m])
      BY <3>1, <1>2, <2>2 DEF Spans
    <3>2. CASE x \in Span(p)
      BY <3>2, <1>2, <2>3 DEF Spans
    <3>3. CASE x \in Spans(O[m])
      BY <3>3, <2>1, <2>3 DEF Spans
    <3>4. QED
      BY <3>1, <3>2, <3>3
  <2>5. QED
    BY <2>4
<1>5. used \cup N \cup Span(p) = (own \cup N) \cup UNION {Spans(Q[n]) : n \in Managers}
  <2>1. \A n \in Managers : Spans(Q[n]) = Spans(O[n]) \/ (n = m /\ Spans(Q[n]) = Span(p) \cup Spans(O[n]))
    BY <1>1, <1>4
  <2>2. used = own \cup UNION {Spans(O[n]) : n \in Managers}
    BY DEF OneOwner
  <2>3. \A x : x \in UNION {Spans(Q[n]) : n \in Managers} <=>
                  x \in Span(p) \/ x \in UNION {Spans(O[n]) : n \in Managers}
    <3> HIDE DEF Q
    <3> QED BY <2>1, <1>4
  <2>4. QED
    BY <2>2, <2>3
<1>6. \A n \in Managers : \A i \in DOMAIN Q[n] : Span(Q[n][i]) \cap (own \cup N) = {}
  <2>1. own \subseteq used
    BY DEF OneOwner
  <2>2. QED
    BY <1>1, <1>2, <1>3, <2>1 DEF OneOwner
<1>7. ASSUME NEW n \in Managers, NEW k \in Managers,
             NEW i \in DOMAIN Q[n], NEW j \in DOMAIN Q[k], <<n, i>> # <<k, j>>
      PROVE  Span(Q[n][i]) \cap Span(Q[k][j]) = {}
  <2>1. ASSUME NEW l \in Managers, NEW h \in DOMAIN Q[l]
        PROVE  \/ l = m /\ h = 1 /\ Q[l][h] = p
               \/ l = m /\ h # 1 /\ h - 1 \in DOMAIN O[l] /\ Q[l][h] = O[l][h - 1]
               \/ l # m /\ h \in DOMAIN O[l] /\ Q[l][h] = O[l][h]
    BY <1>1, <1>2
  <2>2. \A l, l2 \in Managers : \A h \in DOMAIN O[l], h2 \in DOMAIN O[l2] :
           <<l, h>> # <<l2, h2>> => Span(O[l][h]) \cap Span(O[l2][h2]) = {}
    BY DEF OneOwner
  <2>3. i \in Int /\ j \in Int
    BY <1>1, <1>2
  <2> HIDE DEF Q
  <2>4. \A l \in Managers : \A h \in DOMAIN Q[l] : ~(l = m /\ h = 1) =>
           \E h2 \in DOMAIN O[l] :
              Q[l][h] = O[l][h2] /\ h2 = IF l = m THEN h - 1 ELSE h
    BY <2>1
  <2>5. \A l \in Managers : \A h \in DOMAIN Q[l] : ~(l = m /\ h = 1) =>
           Span(Q[l][h]) \cap Span(p) = {}
    BY <2>4, <1>3
  <2>6. Q[m][1] = p
    BY <1>2
  <2>7. CASE n = m /\ i = 1
    <3>1. ~(k = m /\ j = 1)
      BY <2>7, <1>7
    <3>2. QED
      BY <3>1, <2>5, <2>6, <2>7
  <2>8. CASE k = m /\ j = 1
    <3>1. ~(n = m /\ i = 1)
      BY <2>8, <1>7
    <3>2. QED
      BY <3>1, <2>5, <2>6, <2>8
  <2>9. CASE ~(n = m /\ i = 1) /\ ~(k = m /\ j = 1)
    <3>1. PICK a \in DOMAIN O[n] : Q[n][i] = O[n][a] /\ a = IF n = m THEN i - 1 ELSE i
      BY <2>4, <2>9
    <3>2. PICK b \in DOMAIN O[k] : Q[k][j] = O[k][b] /\ b = IF k = m THEN j - 1 ELSE j
      BY <2>4, <2>9
    <3>3. <<n, a>> # <<k, b>>
      BY <3>1, <3>2, <2>3, <1>7
    <3>4. QED
      BY <3>1, <3>2, <3>3, <2>2, SMTT(30)
  <2>10. QED
    BY <2>7, <2>8, <2>9
<1>8. QED
  BY <1>5, <1>6, <1>7 DEF OneOwner

(* The allocator takes the pages N for itself and nobody gets a page. *)
LEMMA GainNothing ==
    ASSUME NEW O \in Lists, NEW used, NEW own, OneOwner(O, used, own),
           NEW N, N \cap used = {}
    PROVE  OneOwner(O, used \cup N, own \cup N)
<1>1. \A n \in Managers : \A i \in DOMAIN O[n] : Span(O[n][i]) \subseteq used
  BY DEF OneOwner, Spans
<1>2. \A n \in Managers : \A i \in DOMAIN O[n] : Span(O[n][i]) \cap (own \cup N) = {}
  BY <1>1 DEF OneOwner
<1>3. used \cup N = (own \cup N) \cup UNION {Spans(O[n]) : n \in Managers}
  BY DEF OneOwner
<1>4. QED
  BY <1>2, <1>3 DEF OneOwner

(* A manager gives back the first of its pages and keeps the rest. *)
LEMMA LosePages ==
    ASSUME NEW O \in Lists, NEW used, NEW own, OneOwner(O, used, own),
           NEW m \in Managers, NEW s \in Seq(Descriptor), NEW t \in Seq(Descriptor),
           O[m] = s \o t
    PROVE  OneOwner([O EXCEPT ![m] = t], used \ Spans(s), own)
<1> DEFINE Q == [O EXCEPT ![m] = t]
<1>1. /\ \A n \in Managers \ {m} : Q[n] = O[n]
      /\ Q[m] = t
  BY DEF Lists
<1>2. /\ Len(s) \in Nat /\ Len(t) \in Nat
      /\ DOMAIN s = 1..Len(s) /\ DOMAIN t = 1..Len(t)
      /\ DOMAIN O[m] = 1..Len(s) + Len(t)
      /\ \A i \in DOMAIN s : O[m][i] = s[i]
      /\ \A i \in DOMAIN t : O[m][Len(s) + i] = t[i]
  <2>1. /\ Len(s) \in Nat /\ Len(t) \in Nat
        /\ DOMAIN s = 1..Len(s) /\ DOMAIN t = 1..Len(t)
    BY LenProperties
  <2>2. /\ s \o t \in Seq(Descriptor)
        /\ Len(s \o t) = Len(s) + Len(t)
        /\ \A i \in 1..Len(s) + Len(t) :
              (s \o t)[i] = IF i <= Len(s) THEN s[i] ELSE t[i - Len(s)]
    BY ConcatProperties
  <2>3. DOMAIN (s \o t) = 1..Len(s) + Len(t)
    BY <2>2, LenProperties
  <2>4. QED
    BY <2>1, <2>2, <2>3
(* Where a descriptor that stays was before. *)
<1> DEFINE was(n, i) == IF n = m THEN Len(s) + i ELSE i
<1>3. \A n \in Managers : \A i \in DOMAIN Q[n] :
         was(n, i) \in DOMAIN O[n] /\ Q[n][i] = O[n][was(n, i)]
  BY <1>1, <1>2
<1>4. \A n \in Managers : DOMAIN Q[n] \subseteq Int
  BY <1>1, <1>2, LenProperties DEF Lists
<1>5. \A i \in DOMAIN s : i \in DOMAIN O[m] /\ O[m][i] = s[i]
  BY <1>2
<1>6. \A n \in Managers : \A i \in DOMAIN Q[n] : \A j \in DOMAIN s :
         <<n, was(n, i)>> # <<m, j>>
  BY <1>1, <1>2
<1>7. Spans(O[m]) = Spans(s) \cup Spans(t)
  <2>1. ASSUME NEW i \in DOMAIN O[m]
        PROVE  (i \in DOMAIN s) \/ (i - Len(s) \in DOMAIN t /\ O[m][i] = t[i - Len(s)])
    BY <1>2
  <2>2. \A i \in DOMAIN t : Len(s) + i \in DOMAIN O[m]
    BY <1>2
  <2>3. Spans(O[m]) \subseteq Spans(s) \cup Spans(t)
    BY <2>1, <1>5 DEF Spans
  <2>4. Spans(s) \subseteq Spans(O[m])
    BY <1>5 DEF Spans
  <2>5. Spans(t) \subseteq Spans(O[m])
    BY <2>2, <1>2 DEF Spans
  <2>6. QED
    BY <2>3, <2>4, <2>5
<1>8. \A n \in Managers : Spans(Q[n]) \cap Spans(s) = {}
  <2> HIDE DEF was, Q
  <2>1. ASSUME NEW n \in Managers, NEW i \in DOMAIN Q[n], NEW j \in DOMAIN s
        PROVE  Span(Q[n][i]) \cap Span(s[j]) = {}
    <3>1. was(n, i) \in DOMAIN O[n] /\ Q[n][i] = O[n][was(n, i)]
      BY <1>3
    <3>2. j \in DOMAIN O[m] /\ O[m][j] = s[j]
      BY <1>5
    <3>3. <<n, was(n, i)>> # <<m, j>>
      BY <1>6
    <3>4. QED
      BY <3>1, <3>2, <3>3 DEF OneOwner
  <2>2. QED
    BY <2>1 DEF Spans
<1>9. Spans(s) \cap own = {}
  BY <1>5, ZenonT(60) DEF Spans, OneOwner
<1>10. used \ Spans(s) = own \cup UNION {Spans(Q[n]) : n \in Managers}
  <2>1. used = own \cup UNION {Spans(O[n]) : n \in Managers}
    BY DEF OneOwner
  <2>2. \A n \in Managers : Spans(O[n]) = Spans(Q[n]) \/ (n = m /\ Spans(O[n]) = Spans(s) \cup Spans(Q[n]))
    BY <1>1, <1>7
  <2> HIDE DEF was, Q
  <2>3. ASSUME NEW x \in used, x \notin Spans(s), x \notin own
        PROVE  \E n \in Managers : x \in Spans(Q[n])
    BY <2>1, <2>2, <2>3
  <2>4. ASSUME NEW n \in Managers, NEW x \in Spans(Q[n])
        PROVE  x \in used /\ x \notin Spans(s)
    BY <2>1, <2>2, <1>8
  <2>5. QED
    BY <2>1, <2>3, <2>4, <1>9
<1>11. \A n \in Managers : \A i \in DOMAIN Q[n] : Span(Q[n][i]) \cap own = {}
  <2> HIDE DEF was, Q
  <2> QED BY <1>3 DEF OneOwner
<1>12. ASSUME NEW n \in Managers, NEW k \in Managers,
              NEW i \in DOMAIN Q[n], NEW j \in DOMAIN Q[k], <<n, i>> # <<k, j>>
       PROVE  Span(Q[n][i]) \cap Span(Q[k][j]) = {}
  <2>1. <<n, was(n, i)>> # <<k, was(k, j)>>
    BY <1>4, <1>2, <1>12
  <2>2. was(n, i) \in DOMAIN O[n] /\ Q[n][i] = O[n][was(n, i)]
    BY <1>3
  <2>3. was(k, j) \in DOMAIN O[k] /\ Q[k][j] = O[k][was(k, j)]
    BY <1>3
  <2> HIDE DEF was, Q
  <2>4. \A a \in DOMAIN O[n], b \in DOMAIN O[k] :
           <<n, a>> # <<k, b>> => Span(O[n][a]) \cap Span(O[k][b]) = {}
    BY DEF OneOwner
  <2>5. Span(O[n][was(n, i)]) \cap Span(O[k][was(k, j)]) = {}
    BY <2>1, <2>2, <2>3, <2>4
  <2>6. QED
    BY <2>2, <2>3, <2>5
<1>13. QED
  BY <1>10, <1>11, <1>12 DEF OneOwner

(* Memory is taken from a page, or given back to it: no span changes. *)
LEMMA SameSpans ==
    ASSUME NEW O \in Lists, NEW Q, NEW used, NEW own, OneOwner(O, used, own),
           \A n \in Managers : DOMAIN Q[n] = DOMAIN O[n],
           \A n \in Managers : \A i \in DOMAIN O[n] : Span(Q[n][i]) = Span(O[n][i])
    PROVE  OneOwner(Q, used, own)
<1>1. \A n \in Managers : Spans(Q[n]) = Spans(O[n])
  BY DEF Spans
<1>2. QED
  BY <1>1 DEF OneOwner

-----------------------------------------------------------------------------
(* What the functions run under the lock return *)

(* The pages of a run. *)
Run(id, length) == id..id + length - 1

(* A search returns a free run of pages, or Capacity. *)
LEMMA FindRangeFacts ==
    ASSUME NEW a \in AllocatorState, NEW length \in Nat \ {0}
    PROVE  /\ FindRange(a, length) \in 0..Capacity
           /\ FindRange(a, length) # Capacity =>
                 /\ Run(FindRange(a, length), length) \subseteq PageIds
                 /\ Run(FindRange(a, length), length) \cap a.bitset = {}
<1>1. Capacity \in Nat
  BY PagesAssumption
<1> DEFINE first(p) == IsFirstFit(a.bitset, Capacity, length, p)
<1>2. CASE \E p \in 0..Capacity - 1 : first(p)
  <2>1. /\ FindRange(a, length) \in 0..Capacity - 1
        /\ first(FindRange(a, length))
    BY <1>2 DEF FindRange, FirstFit
  <2>2. QED
    BY <1>1, <2>1 DEF IsFirstFit, Fit, PageIds, Run
<1>3. CASE ~\E p \in 0..Capacity - 1 : first(p)
  <2>1. FindRange(a, length) = Capacity
    BY <1>3 DEF FindRange, FirstFit
  <2>2. QED
    BY <1>1, <2>1
<1>4. QED
  BY <1>2, <1>3

(* scorep_bitset_set_range and the statistics: exactly the run taken becomes
   used, the maintenance pages are left alone. *)
LEMMA TakePagesFacts ==
    ASSUME NEW a \in AllocatorState, NEW id \in 0..Capacity, NEW length \in Nat,
           id # Capacity => Run(id, length) \subseteq PageIds
    PROVE  /\ TakePages(a, id, length) \in AllocatorState
           /\ TakePages(a, id, length).maintenance = a.maintenance
           /\ TakePages(a, id, length).bitset =
                 IF id = Capacity THEN a.bitset ELSE a.bitset \cup Run(id, length)
<1> DEFINE n == a.nAllocated + length
           bits == IF id < Capacity THEN a.bitset \cup Run(id, length) ELSE a.bitset
           mark == IF n > a.highWatermark THEN n ELSE a.highWatermark
           b == TakePages(a, id, length)
<1>1. /\ n \in Int /\ mark \in Int /\ bits \in SUBSET PageIds
      /\ bits = IF id = Capacity THEN a.bitset ELSE a.bitset \cup Run(id, length)
  BY PagesAssumption DEF AllocatorState
<1>2. b = [a EXCEPT !.nAllocated = n, !.highWatermark = mark, !.bitset = bits]
  BY DEF TakePages, Run
<1> HIDE DEF n, bits, mark, b
<1>3. b \in AllocatorState
  BY <1>1, <1>2 DEF AllocatorState
<1>4. b.maintenance = a.maintenance /\ b.bitset = bits
  BY <1>2 DEF AllocatorState
<1>5. QED
  BY <1>1, <1>3, <1>4 DEF b

(* Getting an object takes no page or one, which becomes a maintenance page. *)
GotObject(a, g) ==
    /\ g.ok \in BOOLEAN
    /\ g.a \in AllocatorState
    /\ \E N : /\ N \cap a.bitset = {}
              /\ g.a.bitset = a.bitset \cup N
              /\ g.a.maintenance = a.maintenance \cup N

(* get_union_object: it costs no page, or one that was free and is from now
   on a maintenance page. *)
LEMMA GetObjectFacts ==
    ASSUME NEW a \in AllocatorState
    PROVE  GotObject(a, GetObject(a))
<1> DEFINE id == FindRange(a, 1)
           b == TakePages(a, id, 1)
           g == GetObject(a)
<1>1. /\ id \in 0..Capacity
      /\ id # Capacity => Run(id, 1) \subseteq PageIds /\ Run(id, 1) \cap a.bitset = {}
  BY FindRangeFacts
<1>2. Run(id, 1) = {id}
  BY <1>1 DEF Run
<1>3. /\ b \in AllocatorState
      /\ b.maintenance = a.maintenance
      /\ b.bitset = IF id = Capacity THEN a.bitset ELSE a.bitset \cup {id}
  <2> HIDE DEF id
  <2> QED BY <1>1, <1>2, TakePagesFacts
<1>4. CASE a.freeObjects > 0
  <2> DEFINE c == [a EXCEPT !.freeObjects = @ - 1]
  <2>1. g.ok = TRUE /\ g.a = c
    BY <1>4 DEF GetObject
  <2>2. c \in AllocatorState
    BY DEF AllocatorState
  <2>3. c.bitset = a.bitset \cup {} /\ c.maintenance = a.maintenance \cup {}
    BY DEF AllocatorState
  <2> HIDE DEF c
  <2>4. QED
    BY <2>1, <2>2, <2>3 DEF GotObject
<1>5. CASE ~(a.freeObjects > 0) /\ id = Capacity
  <2>1. g.ok = FALSE /\ g.a = b
    BY <1>5 DEF GetObject
  <2>2. b.bitset = a.bitset \cup {} /\ b.maintenance = a.maintenance \cup {}
    BY <1>3, <1>5
  <2> HIDE DEF b
  <2>3. QED
    BY <2>1, <2>2, <1>3 DEF GotObject
<1>6. CASE ~(a.freeObjects > 0) /\ id # Capacity
  <2> DEFINE c == [b EXCEPT !.maintenance = @ \cup {id},
                            !.freeObjects = ObjectsPerPage - 1]
  <2>1. g.ok = TRUE /\ g.a = c
    BY <1>6 DEF GetObject
  <2>2. id \in PageIds /\ {id} \cap a.bitset = {}
    BY <1>1, <1>2, <1>6
  <2>3. ObjectsPerPage - 1 \in Int
    BY PagesAssumption
  <2> HIDE DEF id, b
  <2>4. c \in AllocatorState
    BY <2>2, <2>3, <1>3 DEF AllocatorState
  <2>5. c.bitset = a.bitset \cup {id} /\ c.maintenance = a.maintenance \cup {id}
    BY <1>3, <1>6 DEF AllocatorState
  <2> HIDE DEF c
  <2>6. QED
    BY <2>1, <2>2, <2>4, <2>5 DEF GotObject
<1>7. QED
  BY <1>4, <1>5, <1>6

(* put_union_object gives back no page, only an object. *)
LEMMA PutObjectFacts ==
    ASSUME NEW a \in AllocatorState
    PROVE  /\ PutObject(a) \in AllocatorState
           /\ PutObject(a).bitset = a.bitset
           /\ PutObject(a).maintenance = a.maintenance
  BY DEF AllocatorState, PutObject

(* A page that is obtained was free, and so was the maintenance page its
   descriptor may have cost. *)
GotPage(a, g) ==
    /\ g.a \in AllocatorState
    /\ g.ok \in BOOLEAN
    /\ \E N : /\ N \cap a.bitset = {}
              /\ g.a.maintenance = a.maintenance \cup N
              /\ ~g.ok => g.page = <<>> /\ g.a.bitset = a.bitset \cup N
              /\ g.ok => \E p \in Descriptor :
                            /\ g.page = <<p>>
                            /\ Span(p) \cap (a.bitset \cup N) = {}
                            /\ g.a.bitset = a.bitset \cup N \cup Span(p)

(* get_page: the pages of the descriptor returned were free before, and
   nobody else's descriptor or maintenance page covers them. *)
LEMMA GetPageFacts ==
    ASSUME NEW a \in AllocatorState, NEW order \in Nat \ {0}
    PROVE  GotPage(a, GetPage(a, order))
<1> DEFINE o == GetObject(a)
           id == FindRange(o.a, order)
           b == TakePages(o.a, id, order)
           g == GetPage(a, order)
<1>1. o.ok \in BOOLEAN /\ o.a \in AllocatorState
  BY GetObjectFacts DEF GotObject
<1>2. PICK N : /\ N \cap a.bitset = {}
               /\ o.a.bitset = a.bitset \cup N
               /\ o.a.maintenance = a.maintenance \cup N
  BY GetObjectFacts DEF GotObject
<1>3. /\ id \in 0..Capacity
      /\ id # Capacity => /\ Run(id, order) \subseteq PageIds
                          /\ Run(id, order) \cap o.a.bitset = {}
  <2> HIDE DEF o
  <2> QED BY <1>1, FindRangeFacts
<1>4. /\ b \in AllocatorState
      /\ b.maintenance = o.a.maintenance
      /\ b.bitset = IF id = Capacity THEN o.a.bitset
                    ELSE o.a.bitset \cup Run(id, order)
  <2>1. order \in Nat
    OBVIOUS
  <2>2. o.a \in AllocatorState /\ id \in 0..Capacity
        /\ (id # Capacity => Run(id, order) \subseteq PageIds)
    BY <1>1, <1>3
  <2> HIDE DEF id, o, g
  <2>3. QED
    BY <2>1, <2>2, TakePagesFacts
<1>5. CASE ~o.ok
  <2>1. g.ok = FALSE /\ g.a = o.a /\ g.page = <<>>
    BY <1>5 DEF GetPage
  <2> HIDE DEF o
  <2>2. QED
    BY <2>1, <1>1, <1>2 DEF GotPage
<1>6. CASE o.ok /\ id = Capacity
  <2>1. g.ok = FALSE /\ g.a = PutObject(b) /\ g.page = <<>>
    BY <1>6 DEF GetPage
  <2> HIDE DEF o, b, id
  <2>2. /\ PutObject(b) \in AllocatorState
        /\ PutObject(b).bitset = a.bitset \cup N
        /\ PutObject(b).maintenance = a.maintenance \cup N
    BY <1>2, <1>4, <1>6, PutObjectFacts
  <2>3. QED
    BY <2>1, <2>2, <1>2 DEF GotPage
<1>7. CASE o.ok /\ id # Capacity
  <2> DEFINE p == [id |-> id, order |-> order, used |-> 0]
  <2>1. g.ok = TRUE /\ g.a = b /\ g.page = <<p>>
    BY <1>7 DEF GetPage
  <2>2. id \in Nat
    BY <1>3, PagesAssumption
  <2> HIDE DEF o, b, id
  <2>3. p \in Descriptor /\ Span(p) = Run(id, order)
    BY <2>2 DEF Descriptor, Span, Run
  <2>4. /\ Span(p) \cap (a.bitset \cup N) = {}
        /\ b.bitset = a.bitset \cup N \cup Span(p)
        /\ b.maintenance = a.maintenance \cup N
    BY <2>3, <1>2, <1>3, <1>4, <1>7
  <2> HIDE DEF p
  <2>5. QED
    BY <2>1, <2>3, <2>4, <1>2, <1>4 DEF GotPage
<1>8. QED
  BY <1>1, <1>5, <1>6, <1>7

(* put_pages frees the pages of the descriptors on the list and no other. *)
LEMMA PutPagesFacts ==
    ASSUME NEW a \in AllocatorState, NEW list \in Seq(Descriptor),
           Spans(list) \subseteq PageIds
    PROVE  /\ PutPages(a, list) \in AllocatorState
           /\ PutPages(a, list).bitset = a.bitset \ Spans(list)
           /\ PutPages(a, list).maintenance = a.maintenance
<1>1. Cardinality(Spans(list)) \in Nat
  <2>1. IsFiniteSet(PageIds)
    BY FS_Interval, PagesAssumption DEF PageIds
  <2>2. QED
    BY <2>1, FS_Subset, FS_CardinalityType
<1>2. Len(list) \in Nat
  BY LenProperties
<1> DEFINE n == a.nAllocated - Cardinality(Spans(list))
           f == a.freeObjects + Len(list)
           bits == a.bitset \ Spans(list)
<1>3. PutPages(a, list) = [a EXCEPT !.bitset = bits, !.nAllocated = n, !.freeObjects = f]
  BY DEF PutPages, Spans
<1>4. n \in Int /\ f \in Int /\ bits \in SUBSET PageIds
  BY <1>1, <1>2 DEF AllocatorState
<1> HIDE DEF n, f, bits
<1>5. /\ PutPages(a, list) \in AllocatorState
      /\ PutPages(a, list).bitset = bits
      /\ PutPages(a, list).maintenance = a.maintenance
  BY <1>3, <1>4 DEF AllocatorState
<1>6. QED
  BY <1>5 DEF bits

(* A manager that puts a page it just got in front of its list, whatever the
   page is already used for. *)
LEMMA GainGotPage ==
    ASSUME NEW O \in Lists, NEW a, OneOwner(O, a.bitset, a.maintenance),
           NEW m \in Managers, NEW g, GotPage(a, g), g.ok,
           NEW q \in Descriptor, Span(q) = Span(g.page[1])
    PROVE  OneOwner([O EXCEPT ![m] = <<q>> \o @], g.a.bitset, g.a.maintenance)
<1>1. PICK N : /\ N \cap a.bitset = {}
               /\ g.a.maintenance = a.maintenance \cup N
               /\ \E p \in Descriptor :
                     /\ g.page = <<p>>
                     /\ Span(p) \cap (a.bitset \cup N) = {}
                     /\ g.a.bitset = a.bitset \cup N \cup Span(p)
  BY DEF GotPage
<1>2. /\ Span(q) \cap (a.bitset \cup N) = {}
      /\ g.a.bitset = a.bitset \cup N \cup Span(q)
  BY <1>1
<1>3. OneOwner([O EXCEPT ![m] = <<q>> \o @],
               a.bitset \cup N \cup Span(q), a.maintenance \cup N)
  BY <1>1, <1>2, GainPage
<1>4. QED
  BY <1>1, <1>2, <1>3

(* A get_page that fails may still have taken a maintenance page: ownership
   survives it. *)
LEMMA GainNoPage ==
    ASSUME NEW O \in Lists, NEW a, OneOwner(O, a.bitset, a.maintenance),
           NEW g, GotPage(a, g), ~g.ok
    PROVE  g.page = <<>> /\ OneOwner(O, g.a.bitset, g.a.maintenance)
<1>1. PICK N : /\ N \cap a.bitset = {}
               /\ g.a.maintenance = a.maintenance \cup N
               /\ g.page = <<>> /\ g.a.bitset = a.bitset \cup N
  BY DEF GotPage
<1>2. OneOwner(O, a.bitset \cup N, a.maintenance \cup N)
  BY <1>1, GainNothing
<1>3. QED
  BY <1>1, <1>2

(* What get_page returns is a list of at most one descriptor. *)
LEMMA GotPageType ==
    ASSUME NEW a, NEW g, GotPage(a, g)
    PROVE  g.page \in Seq(Descriptor)
<1>1. CASE g.ok
  <2>1. PICK p \in Descriptor : g.page = <<p>>
    BY <1>1 DEF GotPage
  <2>2. QED
    BY <2>1
<1>2. CASE ~g.ok
  <2>1. g.page = <<>>
    BY <1>2 DEF GotPage
  <2>2. QED
    BY <2>1
<1>3. QED
  BY <1>1, <1>2

(* A request for at least one byte needs at least one page. *)
LEMMA OrderPositive ==
    ASSUME NEW bytes \in Nat \ {0}
    PROVE  Order(bytes) \in Nat \ {0}
  BY PagesAssumption DEF Order

-----------------------------------------------------------------------------
(* The inductive invariant: besides the ownership of pages, that a manager
   under construction has no page yet, so that its list can be set. *)

OwnedLists == [m \in Managers |-> Owned(m)]

PagesInv ==
    /\ allocator \in AllocatorState
    /\ stage \in [Managers -> {"absent", "object", "ready"}]
    /\ pages \in Lists
    /\ mappingPage \in Lists
    /\ lastAllocation \in [Managers -> Int]
    /\ \A m \in Managers : stage[m] # "ready" => pages[m] = <<>> /\ mappingPage[m] = <<>>
    /\ OneOwner(OwnedLists, allocator.bitset, allocator.maintenance)

(* What the managers own, their pages and mapping page, are descriptor
   lists. *)
LEMMA OwnedListsType ==
    ASSUME pages \in Lists, mappingPage \in Lists
    PROVE  OwnedLists \in Lists
<1>1. \A m \in Managers : Owned(m) \in Seq(Descriptor)
  BY ConcatProperties DEF Owned, Lists
<1>2. QED
  BY <1>1 DEF OwnedLists, Lists

(* Ownership as the property states it *)
LEMMA OneOwnerIsProperty ==
    ASSUME OneOwner(OwnedLists, allocator.bitset, allocator.maintenance)
    PROVE  PagesHaveOneOwner
<1>1. \A m \in Managers : OwnedLists[m] = Owned(m)
  BY DEF OwnedLists
<1>2. \A m \in Managers : Spans(OwnedLists[m]) = OwnedIds(m)
  BY <1>1 DEF Spans, OwnedIds
<1>3. allocator.bitset = allocator.maintenance \cup UNION {OwnedIds(m) : m \in Managers}
  BY <1>2 DEF OneOwner
<1>4. \A m \in Managers : OwnedIds(m) \cap allocator.maintenance = {}
  BY <1>1 DEF OwnedIds, OneOwner
<1>5. \A m, n \in Managers : \A i \in DOMAIN Owned(m), j \in DOMAIN Owned(n) :
         <<m, i>> # <<n, j>> => Span(Owned(m)[i]) \cap Span(Owned(n)[j]) = {}
  BY <1>1 DEF OneOwner
<1>6. QED
  BY <1>3, <1>4, <1>5 DEF PagesHaveOneOwner

(* SCOREP_Allocator_CreateAllocator: no manager owns a page yet. *)
LEMMA PagesInvInit == Init => PagesInv
<1> SUFFICES ASSUME Init
             PROVE  PagesInv
  OBVIOUS
<1>1. allocator \in AllocatorState
  BY PagesAssumption DEF Init, AllocatorState, PageIds
<1>2. \A m \in Managers : OwnedLists[m] = <<>>
  BY DEF Init, OwnedLists, Owned
<1>3. OneOwner(OwnedLists, allocator.bitset, allocator.maintenance)
  <2>1. \A m \in Managers : DOMAIN OwnedLists[m] = {} /\ Spans(OwnedLists[m]) = {}
    BY <1>2 DEF Spans
  <2>2. allocator.bitset = allocator.maintenance
    BY DEF Init
  <2>3. UNION {Spans(OwnedLists[m]) : m \in Managers} = {}
    BY <2>1
  <2>4. QED
    BY <2>1, <2>2, <2>3 DEF OneOwner
<1>4. QED
  BY <1>1, <1>3 DEF Init, PagesInv, Lists

-----------------------------------------------------------------------------
(* One lemma per operation *)

(* get_page_manager, the object of a page manager: it may cost a maintenance
   page and no other. *)
LEMMA CreateObjectStep ==
    ASSUME PagesInv, NEW m \in Managers, CreateObject(m)
    PROVE  PagesInv'
<1>1. GotObject(allocator, GetObject(allocator))
  BY GetObjectFacts DEF PagesInv
<1>2. allocator' = GetObject(allocator).a /\ OwnedLists' = OwnedLists
  BY DEF CreateObject, OwnedLists, Owned
<1>3. OneOwner(OwnedLists, allocator'.bitset, allocator'.maintenance)
  <2>1. PICK N : /\ N \cap allocator.bitset = {}
                 /\ allocator'.bitset = allocator.bitset \cup N
                 /\ allocator'.maintenance = allocator.maintenance \cup N
    BY <1>1, <1>2 DEF GotObject
  <2>2. OneOwner(OwnedLists, allocator.bitset \cup N, allocator.maintenance \cup N)
    BY <2>1, GainNothing, OwnedListsType DEF PagesInv
  <2>3. QED
    BY <2>1, <2>2
<1>4. /\ stage' \in [Managers -> {"absent", "object", "ready"}]
      /\ \A n \in Managers : stage'[n] = "ready" => stage[n] = "ready"
      /\ \A n \in Managers : stage'[n] # "ready" => stage[n] # "ready"
  BY DEF CreateObject, PagesInv
<1>5. QED
  BY <1>1, <1>2, <1>3, <1>4 DEF GotObject, CreateObject, PagesInv

(* SCOREP_Allocator_CreatePageManager keeps one owner per page. *)
LEMMA CreatePageStep ==
    ASSUME PagesInv, NEW m \in Managers, CreatePage(m)
    PROVE  PagesInv'
<1> DEFINE g == GetPage(allocator, Order(PageSize))
<1>1. GotPage(allocator, g)
  BY GetPageFacts, OrderPositive, PagesAssumption DEF PagesInv
<1>2. pages[m] = <<>> /\ mappingPage[m] = <<>> /\ OwnedLists \in Lists
  BY OwnedListsType DEF CreatePage, PagesInv
<1>3. OwnedLists[m] = <<>>
  BY <1>2 DEF OwnedLists, Owned
<1>4. /\ pages' = [pages EXCEPT ![m] = g.page]
      /\ allocator' = g.a
  BY DEF CreatePage
<1> HIDE DEF g
<1>5. g.page \in Seq(Descriptor)
  BY <1>1, GotPageType
<1>6. pages' \in Lists
  BY <1>4, <1>5 DEF PagesInv, Lists
<1>7. OwnedLists' = [OwnedLists EXCEPT ![m] = g.page]
  <2>1. mappingPage' = mappingPage
    BY DEF CreatePage
  <2>2. g.page \o <<>> = g.page
    BY <1>5, ConcatEmptySeq
  <2>3. QED
    BY <2>1, <2>2, <1>2, <1>4 DEF OwnedLists, Owned, PagesInv, Lists
<1>8. OneOwner(OwnedLists', allocator'.bitset, allocator'.maintenance)
  <2>1. CASE g.ok
    <3>1. PICK p \in Descriptor : g.page = <<p>>
      BY <2>1, <1>1 DEF GotPage
    <3>2. <<p>> \o <<>> = <<p>>
      BY <3>1, <1>5, ConcatEmptySeq
    <3>3. OneOwner([OwnedLists EXCEPT ![m] = <<p>> \o @], g.a.bitset, g.a.maintenance)
      <4>1. Span(p) = Span(g.page[1])
        BY <3>1
      <4>2. OneOwner(OwnedLists, allocator.bitset, allocator.maintenance)
        BY DEF PagesInv
      <4>3. QED
        BY <2>1, <4>1, <4>2, <1>1, <1>2, GainGotPage
    <3>4. QED
      BY <3>1, <3>2, <3>3, <1>2, <1>3, <1>4, <1>7 DEF Lists
  <2>2. CASE ~g.ok
    <3>1. g.page = <<>> /\ OneOwner(OwnedLists, g.a.bitset, g.a.maintenance)
      BY <2>2, <1>1, <1>2, GainNoPage DEF PagesInv
    <3>2. OwnedLists' = OwnedLists
      BY <3>1, <1>2, <1>3, <1>7 DEF Lists
    <3>3. QED
      BY <3>1, <3>2, <1>4
  <2>3. QED
    BY <2>1, <2>2
<1>9. QED
  <2>1. /\ stage' \in [Managers -> {"absent", "object", "ready"}]
        /\ stage'[m] = "ready"
        /\ \A n \in Managers \ {m} : stage'[n] = stage[n] /\ pages'[n] = pages[n]
    BY <1>4 DEF CreatePage, PagesInv, Lists
  <2>2. allocator' \in AllocatorState
    BY <1>1, <1>4 DEF GotPage
  <2>3. mappingPage' = mappingPage /\ lastAllocation' = lastAllocation
    BY DEF CreatePage
  <2>4. QED
    BY <2>1, <2>2, <2>3, <1>6, <1>8 DEF PagesInv

(* SCOREP_Allocator_CreateMovedPageManager keeps one owner per page, also
   where it fails half-way. *)
LEMMA CreateMappingStep ==
    ASSUME PagesInv, NEW m \in Managers, CreateMapping(m)
    PROVE  PagesInv'
<1> DEFINE g == GetPage(allocator, MappingOrder)
<1>1. GotPage(allocator, g)
  BY GetPageFacts, PagesAssumption DEF PagesInv
<1>2. pages[m] = <<>> /\ mappingPage[m] = <<>> /\ OwnedLists \in Lists
  BY OwnedListsType DEF CreateMapping, PagesInv
<1>3. OwnedLists[m] = <<>>
  BY <1>2 DEF OwnedLists, Owned
<1>4. /\ mappingPage' = [mappingPage EXCEPT ![m] = g.page]
      /\ allocator' = IF g.ok THEN g.a ELSE PutObject(g.a)
      /\ stage' = [stage EXCEPT ![m] = IF g.ok THEN "ready" ELSE "absent"]
  BY DEF CreateMapping
<1> HIDE DEF g
<1>5. g.page \in Seq(Descriptor)
  BY <1>1, GotPageType
<1>6. mappingPage' \in Lists
  BY <1>4, <1>5 DEF PagesInv, Lists
<1>7. OwnedLists' = [OwnedLists EXCEPT ![m] = g.page]
  <2>1. pages' = pages
    BY DEF CreateMapping
  <2>2. <<>> \o g.page = g.page
    BY <1>5, ConcatEmptySeq
  <2>3. QED
    BY <2>1, <2>2, <1>2, <1>4 DEF OwnedLists, Owned, PagesInv, Lists
<1>8. g.a \in AllocatorState
  BY <1>1 DEF GotPage
<1>9. CASE g.ok
  <2>1. PICK p \in Descriptor : g.page = <<p>>
    BY <1>9, <1>1 DEF GotPage
  <2>2. <<p>> \o <<>> = <<p>>
    BY <2>1, <1>5, ConcatEmptySeq
  <2>3. Span(p) = Span(g.page[1])
    BY <2>1
  <2>4. OneOwner(OwnedLists, allocator.bitset, allocator.maintenance)
    BY DEF PagesInv
  <2>5. OneOwner([OwnedLists EXCEPT ![m] = <<p>> \o @], g.a.bitset, g.a.maintenance)
    BY <2>3, <2>4, <1>1, <1>2, <1>9, GainGotPage
  <2>6. OneOwner(OwnedLists', allocator'.bitset, allocator'.maintenance)
    BY <2>1, <2>2, <2>5, <1>2, <1>3, <1>4, <1>7, <1>9 DEF Lists
  <2>7. /\ stage' \in [Managers -> {"absent", "object", "ready"}]
        /\ stage'[m] = "ready"
        /\ \A n \in Managers \ {m} : stage'[n] = stage[n] /\ mappingPage'[n] = mappingPage[n]
    BY <1>4, <1>9 DEF PagesInv, Lists
  <2>8. allocator' \in AllocatorState
    BY <1>4, <1>8, <1>9
  <2>9. QED
    BY <2>6, <2>7, <2>8, <1>6 DEF CreateMapping, PagesInv
<1>10. CASE ~g.ok
  <2>1. g.page = <<>> /\ OneOwner(OwnedLists, g.a.bitset, g.a.maintenance)
    BY <1>1, <1>2, <1>10, GainNoPage DEF PagesInv
  <2>2. OwnedLists' = OwnedLists
    BY <2>1, <1>2, <1>3, <1>7 DEF Lists
  <2>3. /\ allocator' \in AllocatorState
        /\ allocator'.bitset = g.a.bitset
        /\ allocator'.maintenance = g.a.maintenance
    BY <1>4, <1>8, <1>10, PutObjectFacts
  <2>4. mappingPage' = mappingPage
    BY <2>1, <1>2, <1>4 DEF PagesInv, Lists
  <2>5. /\ stage' \in [Managers -> {"absent", "object", "ready"}]
        /\ \A n \in Managers \ {m} : stage'[n] = stage[n]
    BY <1>4, <1>10 DEF PagesInv
  <2>6. OneOwner(OwnedLists', allocator'.bitset, allocator'.maintenance)
    BY <2>1, <2>2, <2>3
  <2>7. QED
    BY <2>3, <2>4, <2>5, <2>6, <1>2 DEF CreateMapping, PagesInv
<1>11. QED
  BY <1>1, <1>9, <1>10 DEF GotPage

(* What a manager owns lies in the block. *)
LEMMA OwnedInBlock ==
    ASSUME PagesInv, NEW m \in Managers
    PROVE  Spans(Owned(m)) \subseteq PageIds
<1>1. OwnedLists[m] = Owned(m)
  BY DEF OwnedLists
<1>2. Spans(OwnedLists[m]) \subseteq allocator.bitset
  BY DEF PagesInv, OneOwner
<1>3. QED
  BY <1>1, <1>2 DEF PagesInv, AllocatorState

(* SCOREP_Allocator_Free keeps one owner per page: the pages of the list are
   given up and freed together, the mapping page stays. *)
LEMMA FreeStep ==
    ASSUME PagesInv, NEW m \in Managers, Free(m)
    PROVE  PagesInv'
<1>1. /\ pages[m] \in Seq(Descriptor) /\ mappingPage[m] \in Seq(Descriptor)
      /\ OwnedLists \in Lists
      /\ OwnedLists[m] = pages[m] \o mappingPage[m]
  BY OwnedListsType DEF PagesInv, Lists, OwnedLists, Owned
<1>2. Spans(pages[m]) \subseteq PageIds
  <2>1. Spans(pages[m]) \subseteq Spans(Owned(m))
    <3>1. \A i \in DOMAIN pages[m] : i \in DOMAIN Owned(m) /\ Owned(m)[i] = pages[m][i]
      BY <1>1, ConcatElements DEF Owned
    <3>2. QED
      BY <3>1 DEF Spans
  <2>2. QED
    BY <2>1, OwnedInBlock
<1>3. /\ allocator' = PutPages(allocator, pages[m])
      /\ pages' = [pages EXCEPT ![m] = <<>>]
      /\ mappingPage' = mappingPage /\ stage' = stage
      /\ lastAllocation' = [lastAllocation EXCEPT ![m] = 0]
      /\ stage[m] = "ready"
  BY DEF Free
<1>4. /\ allocator' \in AllocatorState
      /\ allocator'.bitset = allocator.bitset \ Spans(pages[m])
      /\ allocator'.maintenance = allocator.maintenance
  BY <1>1, <1>2, <1>3, PutPagesFacts DEF PagesInv
<1>5. OneOwner([OwnedLists EXCEPT ![m] = mappingPage[m]],
               allocator.bitset \ Spans(pages[m]), allocator.maintenance)
  BY <1>1, LosePages DEF PagesInv
<1>6. OwnedLists' = [OwnedLists EXCEPT ![m] = mappingPage[m]]
  <2>1. <<>> \o mappingPage[m] = mappingPage[m]
    BY <1>1, ConcatEmptySeq
  <2>2. QED
    BY <2>1, <1>3 DEF OwnedLists, Owned, PagesInv, Lists
<1>7. pages' \in Lists
  BY <1>3 DEF PagesInv, Lists
<1>8. lastAllocation' \in [Managers -> Int]
  BY <1>3 DEF PagesInv
<1>9. OneOwner(OwnedLists', allocator'.bitset, allocator'.maintenance)
  BY <1>4, <1>5, <1>6
<1>10. \A n \in Managers : stage'[n] # "ready" => pages'[n] = <<>> /\ mappingPage'[n] = <<>>
  BY <1>3 DEF PagesInv, Lists
<1>11. QED
  BY <1>3, <1>4, <1>7, <1>8, <1>9, <1>10 DEF PagesInv

(* SCOREP_Allocator_DeletePageManager keeps one owner per page. *)
LEMMA DeleteStep ==
    ASSUME PagesInv, NEW m \in Managers, Delete(m)
    PROVE  PagesInv'
<1>1. /\ Owned(m) \in Seq(Descriptor)
      /\ OwnedLists \in Lists
      /\ OwnedLists[m] = Owned(m)
      /\ Owned(m) = Owned(m) \o <<>>
  BY OwnedListsType, ConcatProperties, ConcatEmptySeq DEF PagesInv, Lists, OwnedLists, Owned
<1>2. /\ allocator' = PutObject(PutPages(allocator, Owned(m)))
      /\ pages' = [pages EXCEPT ![m] = <<>>]
      /\ mappingPage' = [mappingPage EXCEPT ![m] = <<>>]
      /\ lastAllocation' = [lastAllocation EXCEPT ![m] = 0]
      /\ stage' = [stage EXCEPT ![m] = "absent"]
  BY DEF Delete, Owned
<1>3. /\ allocator' \in AllocatorState
      /\ allocator'.bitset = allocator.bitset \ Spans(Owned(m))
      /\ allocator'.maintenance = allocator.maintenance
  <2>1. /\ PutPages(allocator, Owned(m)) \in AllocatorState
        /\ PutPages(allocator, Owned(m)).bitset = allocator.bitset \ Spans(Owned(m))
        /\ PutPages(allocator, Owned(m)).maintenance = allocator.maintenance
    BY <1>1, OwnedInBlock, PutPagesFacts DEF PagesInv
  <2>2. QED
    BY <2>1, <1>2, PutObjectFacts
<1>4. OneOwner([OwnedLists EXCEPT ![m] = <<>>],
               allocator.bitset \ Spans(Owned(m)), allocator.maintenance)
  <2>1. <<>> \in Seq(Descriptor)
    OBVIOUS
  <2>2. QED
    BY <2>1, <1>1, LosePages DEF PagesInv
<1>5. OwnedLists' = [OwnedLists EXCEPT ![m] = <<>>]
  <2>1. <<>> \o <<>> = <<>>
    OBVIOUS
  <2>2. QED
    BY <2>1, <1>2 DEF OwnedLists, Owned, PagesInv, Lists
<1>6. pages' \in Lists /\ mappingPage' \in Lists
  BY <1>2 DEF PagesInv, Lists
<1>7. /\ lastAllocation' \in [Managers -> Int]
      /\ stage' \in [Managers -> {"absent", "object", "ready"}]
  BY <1>2 DEF PagesInv
<1>8. OneOwner(OwnedLists', allocator'.bitset, allocator'.maintenance)
  BY <1>3, <1>4, <1>5
<1>9. \A n \in Managers : stage'[n] # "ready" => pages'[n] = <<>> /\ mappingPage'[n] = <<>>
  BY <1>2 DEF PagesInv, Lists
<1>10. QED
  BY <1>3, <1>6, <1>7, <1>8, <1>9 DEF PagesInv

(* A descriptor whose page hands out memory, or gets it back *)
LEMMA RefillStep ==
    ASSUME PagesInv, NEW m \in Managers, NEW i \in DOMAIN pages[m], NEW n \in Int,
           pages' = [pages EXCEPT ![m] =
                        [pages[m] EXCEPT ![i] = [pages[m][i] EXCEPT !.used = n]]],
           UNCHANGED <<allocator, stage, mappingPage>>,
           lastAllocation' \in [Managers -> Int]
    PROVE  PagesInv'
<1> DEFINE list == [pages[m] EXCEPT ![i] = [pages[m][i] EXCEPT !.used = n]]
<1>1. /\ pages[m] \in Seq(Descriptor) /\ mappingPage[m] \in Seq(Descriptor)
      /\ OwnedLists \in Lists
  BY OwnedListsType DEF PagesInv, Lists
<1>2. /\ DOMAIN pages[m] = 1..Len(pages[m]) /\ Len(pages[m]) \in Nat
      /\ \A j \in DOMAIN pages[m] : pages[m][j] \in Descriptor
  BY <1>1, LenProperties
<1>3. [pages[m][i] EXCEPT !.used = n] \in Descriptor
  BY <1>2 DEF Descriptor
<1>4. list \in Seq(Descriptor) /\ Len(list) = Len(pages[m])
  BY <1>1, <1>3
<1>5. \A j \in DOMAIN pages[m] : Span(list[j]) = Span(pages[m][j])
  BY <1>2 DEF Span, Descriptor
<1>6. pages' = [pages EXCEPT ![m] = list]
  OBVIOUS
<1> HIDE DEF list
<1>7. pages' \in Lists
  BY <1>4, <1>6 DEF PagesInv, Lists
<1>8. /\ Owned(m)' = list \o mappingPage[m]
      /\ \A k \in Managers \ {m} : Owned(k)' = Owned(k)
  BY <1>6 DEF Owned, PagesInv, Lists
<1>9. /\ DOMAIN Owned(m)' = DOMAIN Owned(m)
      /\ \A j \in DOMAIN Owned(m) : Span(Owned(m)'[j]) = Span(Owned(m)[j])
  <2>1. /\ DOMAIN (list \o mappingPage[m]) = DOMAIN (pages[m] \o mappingPage[m])
        /\ \A j \in DOMAIN (pages[m] \o mappingPage[m]) :
              Span((list \o mappingPage[m])[j]) = Span((pages[m] \o mappingPage[m])[j])
    BY <1>1, <1>4, <1>5, ConcatSameSpans
  <2>2. Owned(m) = pages[m] \o mappingPage[m]
    BY DEF Owned
  <2>3. QED
    BY <2>1, <2>2, <1>8
<1>10. OneOwner(OwnedLists', allocator.bitset, allocator.maintenance)
  <2>1. \A k \in Managers : OwnedLists[k] = Owned(k) /\ OwnedLists'[k] = Owned(k)'
    BY DEF OwnedLists
  <2>2. \A k \in Managers : DOMAIN OwnedLists'[k] = DOMAIN OwnedLists[k]
    BY <2>1, <1>8, <1>9
  <2>3. \A k \in Managers : \A j \in DOMAIN OwnedLists[k] :
           Span(OwnedLists'[k][j]) = Span(OwnedLists[k][j])
    BY <2>1, <1>8, <1>9
  <2>4. QED
    BY <2>2, <2>3, <1>1, SameSpans DEF PagesInv
<1>11. \A k \in Managers : stage[k] # "ready" => pages'[k] = <<>>
  <2>1. stage[m] = "ready"
    BY <1>2 DEF PagesInv
  <2>2. QED
    BY <2>1, <1>6 DEF PagesInv, Lists
<1>12. QED
  BY <1>7, <1>10, <1>11 DEF PagesInv

(* A page that was just obtained goes in front of the list of its manager. *)
LEMMA PushStep ==
    ASSUME PagesInv, NEW m \in Managers, stage[m] = "ready",
           NEW g, GotPage(allocator, g), g.ok,
           NEW q \in Descriptor, Span(q) = Span(g.page[1]),
           allocator' = g.a,
           pages' = [pages EXCEPT ![m] = <<q>> \o @],
           UNCHANGED <<stage, mappingPage>>,
           lastAllocation' \in [Managers -> Int]
    PROVE  PagesInv'
<1>1. /\ pages[m] \in Seq(Descriptor) /\ mappingPage[m] \in Seq(Descriptor)
      /\ OwnedLists \in Lists /\ <<q>> \in Seq(Descriptor)
  BY OwnedListsType DEF PagesInv, Lists
<1>2. <<q>> \o pages[m] \in Seq(Descriptor)
  BY <1>1, ConcatProperties
<1>3. pages' \in Lists
  BY <1>2 DEF PagesInv, Lists
<1>4. (<<q>> \o pages[m]) \o mappingPage[m] = <<q>> \o (pages[m] \o mappingPage[m])
  BY <1>1, ConcatThree
<1>5. OwnedLists' = [OwnedLists EXCEPT ![m] = <<q>> \o @]
  BY <1>4 DEF OwnedLists, Owned, PagesInv, Lists
<1>6. OneOwner([OwnedLists EXCEPT ![m] = <<q>> \o @], g.a.bitset, g.a.maintenance)
  BY <1>1, GainGotPage DEF PagesInv
<1>7. allocator' \in AllocatorState
  BY DEF GotPage
<1>8. OneOwner(OwnedLists', allocator'.bitset, allocator'.maintenance)
  BY <1>5, <1>6
<1>9. \A k \in Managers : stage'[k] # "ready" => pages'[k] = <<>> /\ mappingPage'[k] = <<>>
  BY DEF PagesInv, Lists
<1>10. QED
  BY <1>3, <1>7, <1>8, <1>9 DEF PagesInv

(* A request for a page that failed *)
LEMMA FailStep ==
    ASSUME PagesInv, NEW g, GotPage(allocator, g), ~g.ok,
           allocator' = g.a,
           UNCHANGED <<stage, pages, mappingPage, lastAllocation>>
    PROVE  PagesInv'
<1>1. OwnedLists' = OwnedLists /\ OwnedLists \in Lists
  BY OwnedListsType DEF OwnedLists, Owned, PagesInv
<1>2. OneOwner(OwnedLists, g.a.bitset, g.a.maintenance)
  BY <1>1, GainNoPage DEF PagesInv
<1>3. QED
  BY <1>1, <1>2 DEF GotPage, PagesInv

(* Requests are for whole bytes, at aligned places. *)
LEMMA GrabType ==
    ASSUME NEW p \in Descriptor, NEW size \in Sizes, NEW alignment \in Alignments
    PROVE  /\ GrabAt(p, alignment) + size \in Int
           /\ Grab(p, size, alignment) = [p EXCEPT !.used = GrabAt(p, alignment) + size]
           /\ Grab(p, size, alignment) \in Descriptor
           /\ Span(Grab(p, size, alignment)) = Span(p)
           /\ PageSize \in Int => Region(p, size, alignment)[1] \in Int
<1>1. size \in Int /\ alignment \in Nat \ {0}
  BY RequestsAssumption, PagesAssumption
<1>2. GrabAt(p, alignment) \in Int
  BY <1>1 DEF GrabAt, RoundUp, Descriptor
<1>3. GrabAt(p, alignment) + size \in Int
  BY <1>1, <1>2
<1>4. Grab(p, size, alignment) = [p EXCEPT !.used = GrabAt(p, alignment) + size]
  BY DEF Grab
<1>5. /\ Grab(p, size, alignment) \in Descriptor
      /\ Span(Grab(p, size, alignment)) = Span(p)
  BY <1>3, <1>4 DEF Descriptor, Span
<1>6. PageSize \in Int => Region(p, size, alignment)[1] \in Int
  BY <1>2 DEF Region, Start, Descriptor
<1>7. QED
  BY <1>3, <1>4, <1>5, <1>6

(* The last allocation that a rollback goes back to is an address. *)
LEMMA HandOutType ==
    ASSUME PagesInv, NEW m \in Managers, NEW p \in Descriptor,
           NEW size \in Sizes, NEW alignment \in Alignments,
           HandOut(m, p, size, alignment)
    PROVE  lastAllocation' \in [Managers -> Int]
<1>1. Region(p, size, alignment)[1] \in Int
  BY GrabType, PagesAssumption
<1>2. QED
  BY <1>1 DEF HandOut, PagesInv

(* page_manager_alloc keeps one owner per page, whether it is served from a
   page of the manager, from a new one, or fails. *)
LEMMA PageManagerAllocStep ==
    ASSUME PagesInv, NEW m \in Managers,
           NEW size \in Sizes, NEW alignment \in Alignments,
           PageManagerAlloc(m, size, alignment)
    PROVE  PagesInv'
<1> DEFINE g == GetPage(allocator, Order(size))
<1>1. /\ stage[m] = "ready" /\ UNCHANGED <<stage, mappingPage>>
  BY DEF PageManagerAlloc
<1>2. GotPage(allocator, g)
  BY GetPageFacts, OrderPositive, RequestsAssumption DEF PagesInv
<1>3. CASE AllocFromList(m, size, alignment)
  <2>1. PICK i \in DOMAIN pages[m] :
           /\ pages' = [pages EXCEPT ![m][i] = Grab(@, size, alignment)]
           /\ HandOut(m, pages[m][i], size, alignment)
           /\ UNCHANGED allocator
    BY <1>3 DEF AllocFromList
  <2>2. pages[m][i] \in Descriptor
    BY LenProperties DEF PagesInv, Lists
  <2>3. /\ GrabAt(pages[m][i], alignment) + size \in Int
        /\ Grab(pages[m][i], size, alignment) =
              [pages[m][i] EXCEPT !.used = GrabAt(pages[m][i], alignment) + size]
    BY <2>2, GrabType
  <2> DEFINE n == GrabAt(pages[m][i], alignment) + size
  <2>4. pages' = [pages EXCEPT ![m] =
                     [pages[m] EXCEPT ![i] = [pages[m][i] EXCEPT !.used = n]]]
    BY <2>1, <2>3
  <2>5. lastAllocation' \in [Managers -> Int]
    BY <2>1, <2>2, HandOutType
  <2>6. n \in Int /\ UNCHANGED <<allocator, stage, mappingPage>>
    BY <2>1, <2>3, <1>1
  <2> HIDE DEF n
  <2>7. QED
    BY <2>4, <2>5, <2>6, RefillStep
<1>4. CASE AllocFromNewPage(m, size, alignment)
  <2> DEFINE q == Grab(g.page[1], size, alignment)
  <2>1. /\ g.ok /\ allocator' = g.a
        /\ pages' = [pages EXCEPT ![m] = <<q>> \o @]
        /\ HandOut(m, g.page[1], size, alignment)
    BY <1>4 DEF AllocFromNewPage
  <2>2. g.page[1] \in Descriptor
    <3> HIDE DEF g
    <3>1. PICK p \in Descriptor : g.page = <<p>>
      BY <2>1, <1>2 DEF GotPage
    <3>2. QED
      BY <3>1
  <2> HIDE DEF g
  <2>3. q \in Descriptor /\ Span(q) = Span(g.page[1])
    BY <2>2, GrabType
  <2>4. lastAllocation' \in [Managers -> Int]
    BY <2>1, <2>2, HandOutType
  <2> HIDE DEF q
  <2>5. QED
    BY <2>1, <2>3, <2>4, <1>1, <1>2, PushStep
<1>5. CASE AllocFails(m, size, alignment)
  <2>1. /\ ~g.ok /\ allocator' = g.a
        /\ UNCHANGED <<pages, lastAllocation>>
    BY <1>5 DEF AllocFails
  <2> HIDE DEF g
  <2>2. QED
    BY <2>1, <1>1, <1>2, FailStep
<1>6. QED
  BY <1>3, <1>4, <1>5 DEF PageManagerAlloc

(* SCOREP_Allocator_RollbackAllocMovable moves no page. *)
LEMMA RollbackStep ==
    ASSUME PagesInv, NEW m \in Managers, RollbackAllocMovable(m)
    PROVE  PagesInv'
<1>1. PICK i \in DOMAIN pages[m] :
         pages' = [pages EXCEPT ![m][i].used = lastAllocation[m] - Start(pages[m][i])]
  BY DEF RollbackAllocMovable
<1>2. pages[m][i] \in Descriptor
  BY LenProperties DEF PagesInv, Lists
<1> DEFINE n == lastAllocation[m] - Start(pages[m][i])
<1>3. n \in Int
  BY <1>2, PagesAssumption DEF PagesInv, Start, Descriptor
<1>4. pages' = [pages EXCEPT ![m] = [pages[m] EXCEPT ![i] = [pages[m][i] EXCEPT !.used = n]]]
  BY <1>1
<1>5. /\ UNCHANGED <<allocator, stage, mappingPage>>
      /\ lastAllocation' \in [Managers -> Int]
  BY DEF RollbackAllocMovable, PagesInv
<1> HIDE DEF n
<1>6. QED
  BY <1>3, <1>4, <1>5, RefillStep

(* SCOREP_Allocator_AllocMovedPage keeps one owner per page. *)
LEMMA AllocMovedPageStep ==
    ASSUME PagesInv, NEW m \in Managers, NEW r \in DOMAIN RemoteUsage,
           AllocMovedPage(m, r)
    PROVE  PagesInv'
<1> DEFINE g == GetPage(allocator, Order(RemoteUsage[r]))
           q == [g.page[1] EXCEPT !.used = RemoteUsage[r]]
<1>1. RemoteUsage[r] \in Nat \ {0}
  BY RequestsAssumption
<1>2. GotPage(allocator, g)
  BY <1>1, GetPageFacts, OrderPositive DEF PagesInv
<1>3. /\ stage[m] = "ready" /\ allocator' = g.a
      /\ UNCHANGED <<stage, mappingPage, lastAllocation>>
      /\ g.ok => pages' = [pages EXCEPT ![m] = <<q>> \o @]
      /\ ~g.ok => UNCHANGED pages
  BY DEF AllocMovedPage
<1> HIDE DEF g
<1>4. CASE g.ok
  <2>1. PICK p \in Descriptor : g.page = <<p>>
    BY <1>2, <1>4 DEF GotPage
  <2>2. g.page[1] = p
    BY <2>1
  <2>3. q \in Descriptor /\ Span(q) = Span(g.page[1])
    BY <2>2, <1>1 DEF Descriptor, Span
  <2> HIDE DEF q
  <2>4. lastAllocation' \in [Managers -> Int]
    BY <1>3 DEF PagesInv
  <2>5. QED
    BY <2>3, <2>4, <1>2, <1>3, <1>4, PushStep
<1>5. CASE ~g.ok
  BY <1>2, <1>3, <1>5, FailStep
<1>6. QED
  BY <1>4, <1>5

(* Every step of the allocator and its managers preserves the invariant. *)
LEMMA PagesInvNext == PagesInv /\ [Next]_vars => PagesInv'
<1> SUFFICES ASSUME PagesInv, [Next]_vars
             PROVE  PagesInv'
  OBVIOUS
<1>1. CASE UNCHANGED vars
  <2>1. OwnedLists' = OwnedLists
    BY <1>1 DEF vars, OwnedLists, Owned
  <2>2. QED
    BY <1>1, <2>1 DEF vars, PagesInv
<1>2. ASSUME NEW m \in Managers,
             CreateObject(m) \/ CreatePage(m) \/ CreateMapping(m)
      PROVE  PagesInv'
  BY <1>2, CreateObjectStep, CreatePageStep, CreateMappingStep
<1>3. ASSUME NEW m \in Managers, Free(m) \/ Delete(m) \/ RollbackAllocMovable(m)
      PROVE  PagesInv'
  BY <1>3, FreeStep, DeleteStep, RollbackStep
<1>4. ASSUME NEW m \in Managers, NEW size \in Sizes, NEW alignment \in Alignments,
             Alloc(m, size, alignment)
      PROVE  PagesInv'
  BY <1>4, PageManagerAllocStep DEF Alloc
<1>5. ASSUME NEW m \in Managers, NEW size \in Sizes, AllocMovable(m, size)
      PROVE  PagesInv'
  BY <1>5, PageManagerAllocStep, RequestsAssumption DEF AllocMovable
<1>6. ASSUME NEW m \in Managers, NEW r \in DOMAIN RemoteUsage, AllocMovedPage(m, r)
      PROVE  PagesInv'
  BY <1>6, AllocMovedPageStep
<1>7. QED
  BY <1>1, <1>2, <1>3, <1>4, <1>5, <1>6 DEF Next

-----------------------------------------------------------------------------
(* In every reachable state the lists of descriptors, the bitset and the
   allocator's own pages agree, and a manager under construction owns nothing. *)
THEOREM PagesInvariance == Spec => []PagesInv
<1>1. QED
  BY PagesInvInit, PagesInvNext, PTL DEF Spec

(* No page has two owners, and the bitset marks exactly the owned pages: what
   a page manager hands out never overlaps another manager's memory or the
   allocator's own objects, however creations and requests fail. *)
THEOREM PageOwnership == Spec => []PagesHaveOneOwner
<1>1. PagesInv => PagesHaveOneOwner
  BY OneOwnerIsProperty DEF PagesInv
<1>2. QED
  BY <1>1, PagesInvariance, PTL

-----------------------------------------------------------------------------
(***************************************************************************)
(* What clients see of the allocator: the regions handed out never share a *)
(* byte, a rollback finds the last one and nothing else, and handles into  *)
(* pages of another process lead to the copied bytes; and behind that, its *)
(* own objects and counters.                                               *)
(*                                                                         *)
(* Pages have one owner, and here they become intervals of bytes:          *)
(* LaidOut(P) says that those of the descriptor lists P follow each other, *)
(* and from there on all arithmetic is linear.                             *)
(***************************************************************************)

(* The first byte behind the run of pages of descriptor p *)
End(p) == Start(p) + p.order * PageSize

Memory == Capacity * PageSize

LaidOut(P) ==
    /\ P \in Lists
    /\ \A m \in Managers : DOMAIN P[m] \subseteq Nat
    /\ \A m \in Managers : \A i \in DOMAIN P[m] :
          /\ P[m][i] \in Descriptor
          /\ Start(P[m][i]) \in PageSize..Memory /\ End(P[m][i]) \in Start(P[m][i])..Memory
    /\ \A m, n \in Managers : \A i \in DOMAIN P[m], j \in DOMAIN P[n] :
          <<m, i>> # <<n, j>> =>
             End(P[m][i]) <= Start(P[n][j]) \/ End(P[n][j]) <= Start(P[m][i])

-----------------------------------------------------------------------------
(* Arithmetic *)

LEMMA TimesMonotonic ==
    ASSUME NEW a \in Int, NEW b \in Int, NEW k \in Nat, a <= b
    PROVE  a * k <= b * k
  OBVIOUS

LEMMA TimesSum ==
    ASSUME NEW a \in Int, NEW b \in Int, NEW k \in Nat
    PROVE  (a + b) * k = a * k + b * k
  OBVIOUS

(* Quotient and remainder *)
LEMMA Division ==
    ASSUME NEW n \in Nat, NEW k \in Nat \ {0}
    PROVE  /\ n \div k \in Nat /\ n % k \in 0..k - 1
           /\ n = (n \div k) * k + (n % k)
<1>1. n \div k \in Nat /\ n % k \in 0..k - 1
  OBVIOUS
<1>2. n = (n \div k) * k + (n % k)
  BY SMTT(30)
<1>3. QED
  BY <1>1, <1>2

LEMMA DivisionUnique ==
    ASSUME NEW q \in Int, NEW s \in Int, NEW k \in Nat \ {0},
           NEW a \in 0..k - 1, NEW b \in 0..k - 1, q * k + a = s * k + b
    PROVE  q = s /\ a = b
  OBVIOUS

(* Whole pages in front of an address do not change its offset in a page. *)
LEMMA DivisionShift ==
    ASSUME NEW r \in Nat, NEW n \in Nat, NEW k \in Nat \ {0}
    PROVE  (r * k + n) \div k = r + (n \div k) /\ (r * k + n) % k = n % k
<1> DEFINE l == r * k + n
           a == l \div k
           b == l % k
           c == n \div k
           d == n % k
<1>1. l \in Nat
  OBVIOUS
<1>2. a \in Nat /\ b \in 0..k - 1 /\ l = a * k + b
  BY <1>1, Division
<1>3. c \in Nat /\ d \in 0..k - 1 /\ n = c * k + d
  BY Division
<1>4. l = r * k + (c * k + d)
  BY <1>3
<1> HIDE DEF a, b, c, d, l
<1>5. l = (r + c) * k + d
  BY <1>3, <1>4, TimesSum
<1>6. a = r + c /\ b = d
  <2>1. a * k + b = (r + c) * k + d /\ r + c \in Int
    BY <1>2, <1>3, <1>5
  <2>2. QED
    BY <2>1, <1>2, <1>3, DivisionUnique
<1>7. QED
  BY <1>6 DEF a, b, c, d, l

(* Alignment only moves an address up, and a request's pages have room. *)
LEMMA RoundUpFacts ==
    ASSUME NEW n \in Nat, NEW k \in Nat \ {0}
    PROVE  RoundUp(n, k) \in Nat /\ RoundUp(n, k) >= n
<1>1. n + k - 1 \in Nat
  OBVIOUS
<1> DEFINE q == (n + k - 1) \div k
           s == (n + k - 1) % k
<1>2. q \in Nat /\ s \in 0..k - 1 /\ n + k - 1 = q * k + s
  BY <1>1, Division
<1>3. q * k \in Nat /\ q * k >= n
  <2> HIDE DEF q, s
  <2> QED BY <1>2
<1>4. QED
  BY <1>3 DEF RoundUp

LEMMA OrderEnough ==
    ASSUME NEW bytes \in Nat \ {0}
    PROVE  bytes <= Order(bytes) * PageSize
<1>1. RoundUp(bytes, PageSize) >= bytes
  BY RoundUpFacts, PagesAssumption
<1>2. QED
  BY <1>1 DEF RoundUp, Order

-----------------------------------------------------------------------------
(* From pages to bytes *)

(* Descriptors with different owners lie apart, behind page 0, inside the
   block. *)
LEMMA PagesLaidOut ==
    ASSUME NEW P \in Lists, NEW M \in Lists, NEW used \in SUBSET PageIds, NEW own,
           OneOwner([m \in Managers |-> P[m] \o M[m]], used, own), 0 \in own
    PROVE  LaidOut(P)
<1> DEFINE O == [m \in Managers |-> P[m] \o M[m]]
<1>1. \A m \in Managers : P[m] \in Seq(Descriptor) /\ M[m] \in Seq(Descriptor)
  BY DEF Lists
<1>2. \A m \in Managers : /\ DOMAIN P[m] \subseteq Nat
                          /\ \A i \in DOMAIN P[m] : P[m][i] \in Descriptor
  BY <1>1, LenProperties
<1>3. \A m \in Managers : \A i \in DOMAIN P[m] : i \in DOMAIN O[m] /\ O[m][i] = P[m][i]
  BY <1>1, ConcatElements
<1> HIDE DEF O
<1>4. OneOwner(O, used, own)
  BY DEF O
<1>5. Capacity \in Nat /\ PageSize \in Nat \ {0}
  BY PagesAssumption
<1>6. ASSUME NEW m \in Managers, NEW i \in DOMAIN P[m]
      PROVE  LET p == P[m][i] IN p.id \in Nat \ {0} /\ p.order \in Nat \ {0}
                                 /\ p.id + p.order <= Capacity
  <2> DEFINE p == P[m][i]
  <2>1. p.id \in Nat /\ p.order \in Nat \ {0}
    BY <1>2 DEF Descriptor
  <2>2. Span(p) \subseteq used /\ Span(p) \cap own = {}
    <3>1. i \in DOMAIN O[m] /\ O[m][i] = p
      BY <1>3
    <3>2. Span(O[m][i]) \subseteq Spans(O[m])
      BY <3>1 DEF Spans
    <3>3. Spans(O[m]) \subseteq used
      BY <1>4 DEF OneOwner
    <3>4. Span(O[m][i]) \cap own = {}
      BY <3>1, <1>4 DEF OneOwner
    <3>5. QED
      BY <3>1, <3>2, <3>3, <3>4
  <2> HIDE DEF p
  <2>3. p.id \in Span(p) /\ p.id + p.order - 1 \in Span(p)
    BY <2>1 DEF Span
  <2>4. p.id # 0
    BY <2>2, <2>3
  <2>5. p.id + p.order - 1 \in PageIds
    BY <2>2, <2>3
  <2>6. p.id + p.order <= Capacity
    BY <2>1, <2>5, <1>5 DEF PageIds
  <2>7. QED
    BY <2>1, <2>4, <2>6 DEF p
<1>7. ASSUME NEW m \in Managers, NEW i \in DOMAIN P[m]
      PROVE  /\ Start(P[m][i]) \in PageSize..Memory
             /\ End(P[m][i]) \in Start(P[m][i])..Memory
  <2> DEFINE p == P[m][i]
  <2>1. p.id \in Nat \ {0} /\ p.order \in Nat \ {0} /\ p.id + p.order <= Capacity
    BY <1>6
  <2> HIDE DEF p
  <2>2. 1 * PageSize <= p.id * PageSize /\ 0 * PageSize <= p.order * PageSize
    BY <2>1, <1>5, TimesMonotonic
  <2>3. (p.id + p.order) * PageSize <= Capacity * PageSize
    BY <2>1, <1>5, TimesMonotonic
  <2>4. (p.id + p.order) * PageSize = p.id * PageSize + p.order * PageSize
    BY <2>1, <1>5, TimesSum
  <2>5. p.id * PageSize \in Int /\ p.order * PageSize \in Int /\ Capacity * PageSize \in Int
    BY <2>1, <1>5
  <2>6. QED
    BY <2>2, <2>3, <2>4, <2>5, <1>5 DEF Start, End, Memory, p
<1>8. ASSUME NEW m \in Managers, NEW n \in Managers,
             NEW i \in DOMAIN P[m], NEW j \in DOMAIN P[n], <<m, i>> # <<n, j>>
      PROVE  End(P[m][i]) <= Start(P[n][j]) \/ End(P[n][j]) <= Start(P[m][i])
  <2> DEFINE p == P[m][i]
             q == P[n][j]
  <2>1. /\ p.id \in Nat \ {0} /\ p.order \in Nat \ {0}
        /\ q.id \in Nat \ {0} /\ q.order \in Nat \ {0}
    BY <1>6
  <2>2. Span(p) \cap Span(q) = {}
    <3>1. i \in DOMAIN O[m] /\ O[m][i] = p /\ j \in DOMAIN O[n] /\ O[n][j] = q
      BY <1>3
    <3>2. Span(O[m][i]) \cap Span(O[n][j]) = {}
      BY <3>1, <1>4, <1>8 DEF OneOwner
    <3>3. QED
      BY <3>1, <3>2
  <2> HIDE DEF p, q
  <2>3. p.id + p.order <= q.id \/ q.id + q.order <= p.id
    <3>1. p.id \in Span(p) /\ q.id \in Span(q)
      BY <2>1 DEF Span
    <3>2. p.id \notin Span(q) /\ q.id \notin Span(p)
      BY <3>1, <2>2
    <3>3. QED
      BY <3>2, <2>1 DEF Span
  <2>4. /\ (p.id + p.order) * PageSize = p.id * PageSize + p.order * PageSize
        /\ (q.id + q.order) * PageSize = q.id * PageSize + q.order * PageSize
    BY <2>1, <1>5, TimesSum
  <2>5. CASE p.id + p.order <= q.id
    <3>1. (p.id + p.order) * PageSize <= q.id * PageSize
      BY <2>1, <2>5, <1>5, TimesMonotonic
    <3>2. QED
      BY <3>1, <2>4 DEF Start, End, p, q
  <2>6. CASE q.id + q.order <= p.id
    <3>1. (q.id + q.order) * PageSize <= p.id * PageSize
      BY <2>1, <2>6, <1>5, TimesMonotonic
    <3>2. QED
      BY <3>1, <2>4 DEF Start, End, p, q
  <2>7. QED
    BY <2>3, <2>5, <2>6
<1>9. QED
  BY <1>2, <1>7, <1>8 DEF LaidOut

(* The regions of the memory, by their bounds *)
LEMMA RegionBounds ==
    ASSUME NEW r \in Regions
    PROVE  r = <<r[1], r[2]>> /\ r[1] \in PageSize..Memory /\ r[2] \in Nat /\ r[1] < r[2]
<1>1. PICK a \in PageSize..Capacity * PageSize,
           n \in Sizes \cup {RemoteUsage[s] : s \in DOMAIN RemoteUsage} : r = <<a, a + n>>
  BY DEF Regions
<1>2. n \in Nat \ {0} /\ PageSize \in Nat \ {0} /\ Capacity * PageSize \in Int
  BY RequestsAssumption, PagesAssumption
<1>3. QED
  BY <1>1, <1>2 DEF Memory

(* The regions U that are kept lie in pages, those in page h of manager m
   in front of R. *)
InFrontOf(Q, U, m, h, R) ==
    \A n \in Managers : \A s \in U[n] : \E i \in DOMAIN Q[n] :
       Covers(Q[n][i], s) /\ (n = m /\ i = h => s[2] <= R[1])

(* A region put at the end of the used part of page h of manager m lies apart
   from all others, provided they stay where they are. *)
LEMMA RegionAdded ==
    ASSUME NEW Q, LaidOut(Q), NEW U \in [Managers -> SUBSET Regions],
           NEW m \in Managers, NEW h \in DOMAIN Q[m], NEW R \in Regions,
           UsedInPage(Q), RegionsApart(U), Covers(Q[m][h], R),
           InFrontOf(Q, U, m, h, R)
    PROVE  /\ RegionsKept(Q, [U EXCEPT ![m] = @ \cup {R}])
           /\ \A n \in Managers : \A s \in U[n] : Abstract!Apart(R, s)
<1> DEFINE V == [U EXCEPT ![m] = @ \cup {R}]
<1>1. V \in [Managers -> SUBSET Regions]
  OBVIOUS
<1>2. V[m] = U[m] \cup {R} /\ \A n \in Managers \ {m} : V[n] = U[n]
  OBVIOUS
<1>3. ASSUME NEW n \in Managers, NEW s \in U[n]
      PROVE  Abstract!Apart(R, s)
  <2>1. PICK i \in DOMAIN Q[n] : Covers(Q[n][i], s) /\ (n = m /\ i = h => s[2] <= R[1])
    BY DEF InFrontOf
  <2>2. R[1] \in Int /\ R[2] \in Int /\ s[1] \in Int /\ s[2] \in Int
    BY RegionBounds, PagesAssumption DEF Memory
  <2>3. CASE n = m /\ i = h
    BY <2>1, <2>2, <2>3 DEF Abstract!Apart
  <2>4. CASE <<n, i>> # <<m, h>>
    <3>1. End(Q[m][h]) <= Start(Q[n][i]) \/ End(Q[n][i]) <= Start(Q[m][h])
      BY <2>4 DEF LaidOut
    <3>2. /\ Q[m][h].used <= Q[m][h].order * PageSize
          /\ Q[n][i].used <= Q[n][i].order * PageSize
      BY DEF UsedInPage
    <3>3. Q[m][h] \in Descriptor /\ Q[n][i] \in Descriptor
      BY DEF LaidOut
    <3>4. /\ Start(Q[m][h]) \in Int /\ Start(Q[n][i]) \in Int
          /\ Q[m][h].order * PageSize \in Int /\ Q[n][i].order * PageSize \in Int
          /\ Q[m][h].used \in Int /\ Q[n][i].used \in Int
      BY <3>3, PagesAssumption DEF Descriptor, Start
    <3>5. /\ End(Q[m][h]) = Start(Q[m][h]) + Q[m][h].order * PageSize
          /\ End(Q[n][i]) = Start(Q[n][i]) + Q[n][i].order * PageSize
      BY DEF End
    <3>6. R[2] <= Start(Q[m][h]) + Q[m][h].used /\ Start(Q[m][h]) <= R[1]
      BY DEF Covers
    <3>7. s[2] <= Start(Q[n][i]) + Q[n][i].used /\ Start(Q[n][i]) <= s[1]
      BY <2>1 DEF Covers
    <3>8. R[2] <= s[1] \/ s[2] <= R[1]
      BY <2>2, <3>1, <3>2, <3>4, <3>5, <3>6, <3>7
    <3>9. QED
      BY <3>8 DEF Abstract!Apart
  <2>5. QED
    BY <2>3, <2>4
<1>4. \A n \in Managers : \A s \in V[n] : (n = m /\ s = R) \/ s \in U[n]
  BY <1>2
<1>5. ASSUME NEW n \in Managers, NEW r \in V[n]
      PROVE  \E i \in DOMAIN Q[n] : Covers(Q[n][i], r)
  BY <1>4 DEF InFrontOf
<1>6. ASSUME NEW n \in Managers, NEW k \in Managers, NEW r \in V[n], NEW s \in V[k],
             <<n, r>> # <<k, s>>
      PROVE  Abstract!Apart(r, s)
  <2>1. \A a, b : Abstract!Apart(a, b) => Abstract!Apart(b, a)
    BY DEF Abstract!Apart
  <2> HIDE DEF V
  <2>2. CASE n = m /\ r = R
    BY <1>3, <1>4, <1>6, <2>2
  <2>3. CASE k = m /\ s = R
    BY <1>3, <1>4, <1>6, <2>1, <2>3
  <2>4. CASE r \in U[n] /\ s \in U[k]
    BY <1>6, <2>4 DEF RegionsApart
  <2>5. QED
    BY <1>4, <2>2, <2>3, <2>4
<1> HIDE DEF V
<1>7. RegionsKept(Q, V)
  BY <1>1, <1>5, <1>6 DEF RegionsKept, RegionsApart
<1>8. QED
  BY <1>3, <1>7 DEF V

-----------------------------------------------------------------------------
(* What the steps have in common *)

LEMMA LaidOutNow ==
    ASSUME PagesInv, 0 \in allocator.maintenance
    PROVE  LaidOut(pages)
<1>1. OwnedLists = [m \in Managers |-> pages[m] \o mappingPage[m]]
  BY DEF OwnedLists, Owned
<1>2. allocator.bitset \in SUBSET PageIds
  BY DEF PagesInv, AllocatorState
<1>3. QED
  BY <1>1, <1>2, PagesLaidOut DEF PagesInv

LEMMA LaidOutNext ==
    ASSUME PagesInv', 0 \in allocator'.maintenance
    PROVE  LaidOut(pages')
<1>1. OwnedLists' = [m \in Managers |-> pages'[m] \o mappingPage'[m]]
  BY DEF OwnedLists, Owned
<1>2. allocator'.bitset \in SUBSET PageIds
  BY DEF PagesInv, AllocatorState
<1>3. /\ pages' \in Lists /\ mappingPage' \in Lists
      /\ OneOwner([m \in Managers |-> pages'[m] \o mappingPage'[m]],
                  allocator'.bitset, allocator'.maintenance)
  BY <1>1 DEF PagesInv
<1>4. QED
  BY <1>2, <1>3, PagesLaidOut

(* get_page returns an unused page of the order asked for. *)
LEMMA NewPage ==
    ASSUME NEW a, NEW order, GetPage(a, order).ok
    PROVE  \E id : GetPage(a, order).page = <<[id |-> id, order |-> order, used |-> 0]>>
  BY DEF GetPage

(* Maintenance pages are never given back. *)
LEMMA MaintenanceKept ==
    ASSUME PagesInv, NEW order \in Nat \ {0}, 0 \in allocator.maintenance
    PROVE  /\ 0 \in GetObject(allocator).a.maintenance
           /\ 0 \in GetPage(allocator, order).a.maintenance
<1>1. GotObject(allocator, GetObject(allocator)) /\ GotPage(allocator, GetPage(allocator, order))
  BY GetObjectFacts, GetPageFacts DEF PagesInv
<1>2. QED
  BY <1>1 DEF GotObject, GotPage

(* A step that hands nothing out and takes nothing back *)
LEMMA QuietStep ==
    ASSUME ClientsInv, 0 \in allocator'.maintenance,
           pages' = pages, inUse' = inUse, lastAllocation' = lastAllocation,
           mapping' = mapping
    PROVE  ClientsInv' /\ [Abstract!Next]_inUse
<1>1. RollbackPossible'
  BY DEF ClientsInv, RollbackPossible
<1>2. QED
  BY <1>1 DEF ClientsInv

(* Manager m's page p, perhaps just obtained, becomes page h of its list with
   a region R at its end.  Its other pages stay what they are. *)
Refilled(m, p, h) ==
    /\ \A k \in Managers \ {m} : pages'[k] = pages[k]
    /\ \A i \in DOMAIN pages[m] : \E j \in DOMAIN pages'[m] :
          IF j = h THEN pages[m][i] = p ELSE pages'[m][j] = pages[m][i]
    /\ \A j \in DOMAIN pages'[m] : j # h =>
          \E i \in DOMAIN pages[m] : pages'[m][j] = pages[m][i]

LEMMA AddStep ==
    ASSUME ClientsInv, PagesInv', 0 \in allocator'.maintenance,
           NEW m \in Managers, NEW h \in DOMAIN pages'[m], NEW p \in Descriptor,
           Refilled(m, p, h), NEW b \in Int, NEW n \in Int,
           pages'[m][h] = [p EXCEPT !.used = n],
           0 <= p.used, p.used <= b, b < n, n <= p.order * PageSize,
           n - b \in Sizes \cup {RemoteUsage[r] : r \in DOMAIN RemoteUsage},
           inUse' = [inUse EXCEPT ![m] = @ \cup {<<Start(p) + b, Start(p) + n>>}]
    PROVE  /\ RegionsKept(pages', inUse')
           /\ Abstract!Next
           /\ <<Start(p) + b, Start(p) + n>> \in Regions
<1> DEFINE Q == pages'
           R == <<Start(p) + b, Start(p) + n>>
           q == pages'[m][h]
<1>1. LaidOut(Q)
  BY LaidOutNext
<1>2. /\ Start(q) = Start(p) /\ q.used = n /\ q.order = p.order /\ End(q) = End(p)
      /\ Start(p) \in Int /\ p.order * PageSize \in Int /\ p.used \in Int
  BY PagesAssumption DEF Descriptor, Start, End
<1>3. Start(p) \in PageSize..Memory /\ End(p) <= Memory /\ End(p) = Start(p) + p.order * PageSize
  <2>1. Start(q) \in PageSize..Memory /\ End(q) \in Start(q)..Memory
    BY <1>1 DEF LaidOut
  <2>2. End(p) = Start(p) + p.order * PageSize
    BY DEF End
  <2>3. QED
    BY <2>1, <2>2, <1>2, PagesAssumption DEF Memory
<1>4. R \in Regions
  <2>1. Start(p) + b \in PageSize..Memory
    BY <1>2, <1>3, PagesAssumption DEF Memory
  <2>2. Start(p) + n = (Start(p) + b) + (n - b)
    BY <1>2
  <2>3. QED
    BY <2>1, <2>2 DEF Regions, Memory
<1>5. R[1] = Start(p) + b /\ R[2] = Start(p) + n
  OBVIOUS
<1>6. Covers(Q[m][h], R)
  BY <1>2, <1>5 DEF Covers
<1>7. /\ inUse \in [Managers -> SUBSET Regions]
      /\ UsedInPage(pages) /\ RegionsApart(inUse)
      /\ \A k \in Managers : \A s \in inUse[k] :
            \E i \in DOMAIN pages[k] : Covers(pages[k][i], s)
  BY DEF ClientsInv, RegionsKept
<1>8. UsedInPage(Q)
  <2>1. ASSUME NEW k \in Managers, NEW i \in DOMAIN Q[k]
        PROVE  0 <= Q[k][i].used /\ Q[k][i].used <= Q[k][i].order * PageSize
    <3>1. CASE k = m /\ i = h
      <4>1. 0 <= n /\ n <= p.order * PageSize
        BY <1>2
      <4>2. Q[k][i].used = n /\ Q[k][i].order = p.order
        BY <1>2, <3>1
      <4>3. QED
        BY <4>1, <4>2
    <3>2. CASE k = m /\ i # h
      <4>1. PICK j \in DOMAIN pages[m] : Q[m][i] = pages[m][j]
        BY <3>2 DEF Refilled
      <4>2. /\ 0 <= pages[m][j].used
            /\ pages[m][j].used <= pages[m][j].order * PageSize
        BY <1>7 DEF UsedInPage
      <4>3. QED
        BY <4>1, <4>2, <3>2
    <3>3. CASE k # m
      <4>1. Q[k] = pages[k]
        BY <3>3 DEF Refilled
      <4>2. QED
        BY <4>1, <1>7 DEF UsedInPage
    <3>4. QED
      BY <3>1, <3>2, <3>3
  <2>2. QED
    BY <2>1 DEF UsedInPage
<1>9. ASSUME NEW k \in Managers, NEW s \in inUse[k]
      PROVE  \E i \in DOMAIN Q[k] : Covers(Q[k][i], s) /\ (k = m /\ i = h => s[2] <= R[1])
  <2>1. PICK i \in DOMAIN pages[k] : Covers(pages[k][i], s)
    BY <1>7
  <2>2. CASE k # m
    BY <2>1, <2>2 DEF Refilled
  <2>3. CASE k = m
    <3>1. PICK j \in DOMAIN Q[m] :
             IF j = h THEN pages[m][i] = p ELSE Q[m][j] = pages[m][i]
      BY <2>3 DEF Refilled
    <3>2. CASE j # h
      BY <2>1, <2>3, <3>1, <3>2
    <3>3. CASE j = h
      <4>1. Start(p) <= s[1] /\ s[2] <= Start(p) + p.used
        BY <2>1, <2>3, <3>1, <3>3 DEF Covers
      <4>2. s[2] \in Int
        BY <1>7, RegionBounds
      <4>3. s[2] <= Start(p) + n /\ s[2] <= R[1]
        BY <4>1, <4>2, <1>2, <1>5
      <4>4. QED
        BY <2>3, <3>3, <4>1, <4>3, <1>2 DEF Covers
    <3>4. QED
      BY <3>2, <3>3
  <2>4. QED
    BY <2>2, <2>3
<1> HIDE DEF R
<1>10. /\ RegionsKept(Q, [inUse EXCEPT ![m] = @ \cup {R}])
       /\ \A k \in Managers : \A s \in inUse[k] : Abstract!Apart(R, s)
  <2> HIDE DEF Q
  <2>1. h \in DOMAIN Q[m]
    BY DEF Q
  <2>2. InFrontOf(Q, inUse, m, h, R)
    BY <1>9 DEF InFrontOf
  <2>3. inUse \in [Managers -> SUBSET Regions] /\ RegionsApart(inUse)
    BY <1>7
  <2>4. QED
    BY <1>1, <1>4, <1>6, <1>8, <2>1, <2>2, <2>3, RegionAdded
<1>11. inUse' = [inUse EXCEPT ![m] = @ \cup {R}]
  BY DEF R
<1>12. Abstract!Next
  BY <1>4, <1>10, <1>11 DEF Abstract!Next, Abstract!Allocate
<1>13. QED
  BY <1>4, <1>10, <1>11, <1>12 DEF R

-----------------------------------------------------------------------------
(* One lemma per operation: it keeps the invariant and is a step, or none, of
   the abstract specification. *)

Kept == ClientsInv' /\ [Abstract!Next]_inUse

(* get_page_manager *)
LEMMA CreateObjectKept ==
    ASSUME PagesInv, ClientsInv, NEW m \in Managers, CreateObject(m)
    PROVE  Kept
<1>1. 0 \in allocator'.maintenance
  BY MaintenanceKept, PagesAssumption DEF CreateObject, ClientsInv
<1>2. QED
  BY <1>1, QuietStep DEF CreateObject, Kept

(* SCOREP_Allocator_CreateMovedPageManager: the mapping's page is not one
   that regions lie in. *)
LEMMA CreateMappingKept ==
    ASSUME PagesInv, ClientsInv, NEW m \in Managers, CreateMapping(m)
    PROVE  Kept
<1> DEFINE g == GetPage(allocator, MappingOrder)
<1>1. 0 \in g.a.maintenance
  BY MaintenanceKept, PagesAssumption DEF ClientsInv
<1>2. g.a \in AllocatorState
  BY GetPageFacts, PagesAssumption DEF PagesInv, GotPage
<1>3. allocator' = IF g.ok THEN g.a ELSE PutObject(g.a)
  BY DEF CreateMapping
<1> HIDE DEF g
<1>4. 0 \in allocator'.maintenance
  BY <1>1, <1>2, <1>3, PutObjectFacts
<1>5. QED
  BY <1>4, QuietStep DEF CreateMapping, Kept

(* SCOREP_Allocator_CreatePageManager: the new page is unused. *)
LEMMA CreatePageKept ==
    ASSUME PagesInv, ClientsInv, NEW m \in Managers, CreatePage(m)
    PROVE  Kept
<1> DEFINE order == Order(PageSize)
           g == GetPage(allocator, order)
<1>1. PageSize \in Nat \ {0} /\ order \in Nat \ {0}
  BY PagesAssumption, OrderPositive
<1>2. 0 \in g.a.maintenance
  <2> HIDE DEF order
  <2> QED BY <1>1, MaintenanceKept DEF ClientsInv
<1>3. /\ allocator' = g.a /\ pages' = [pages EXCEPT ![m] = g.page]
      /\ UNCHANGED <<mapping, lastAllocation, inUse>>
      /\ stage[m] = "object"
  BY DEF CreatePage
<1>4. g.page = <<>> \/ \E id : g.page = <<[id |-> id, order |-> order, used |-> 0]>>
  <2>1. CASE g.ok
    BY <2>1, NewPage
  <2>2. CASE ~g.ok
    <3>1. GotPage(allocator, g)
      <4> HIDE DEF order
      <4> QED BY <1>1, GetPageFacts DEF PagesInv
    <3>2. QED
      BY <2>2, <3>1 DEF GotPage
  <2>3. g.ok \in BOOLEAN
    BY DEF GetPage
  <2>4. QED
    BY <2>1, <2>2
<1>5. pages[m] = <<>> /\ pages \in Lists
  BY <1>3 DEF PagesInv
<1> HIDE DEF g
<1>6. inUse[m] = {}
  BY <1>5 DEF ClientsInv, RegionsKept
<1>7. pages'[m] = g.page /\ \A k \in Managers \ {m} : pages'[k] = pages[k]
  BY <1>3, <1>5 DEF Lists
<1>8. \A i \in DOMAIN pages'[m] : pages'[m][i].used = 0 /\ pages'[m][i].order = order
  <2> HIDE DEF order
  <2>1. CASE g.page = <<>>
    BY <2>1, <1>7
  <2>2. CASE g.page # <<>>
    <3>1. PICK id : g.page = <<[id |-> id, order |-> order, used |-> 0]>>
      BY <2>2, <1>4
    <3>2. \A i \in DOMAIN g.page : g.page[i] = [id |-> id, order |-> order, used |-> 0]
      BY <3>1
    <3>3. QED
      BY <3>2, <1>7
  <2>3. QED
    BY <2>1, <2>2
<1>9. UsedInPage(pages')
  <2>1. ASSUME NEW k \in Managers, NEW i \in DOMAIN pages'[k]
        PROVE  0 <= pages'[k][i].used /\ pages'[k][i].used <= pages'[k][i].order * PageSize
    <3>1. CASE k = m
      <4>1. pages'[k][i].used = 0 /\ pages'[k][i].order = order
        BY <1>8, <3>1
      <4>2. 0 <= order * PageSize
        <5> HIDE DEF order
        <5> QED BY <1>1
      <4>3. QED
        BY <4>1, <4>2
    <3>2. CASE k # m
      BY <1>7, <3>2 DEF ClientsInv, RegionsKept, UsedInPage
    <3>3. QED
      BY <3>1, <3>2
  <2>2. QED
    BY <2>1 DEF UsedInPage
<1>10. RegionsKept(pages', inUse')
  <2>1. \A k \in Managers : \A r \in inUse[k] : k # m
    BY <1>6
  <2>2. \A k \in Managers : \A r \in inUse[k] :
           \E i \in DOMAIN pages'[k] : Covers(pages'[k][i], r)
    BY <2>1, <1>7 DEF ClientsInv, RegionsKept
  <2>3. QED
    BY <2>2, <1>3, <1>9 DEF ClientsInv, RegionsKept
<1>11. RollbackPossible'
  <2>1. ASSUME NEW k \in Managers, lastAllocation'[k] # 0
        PROVE  \E r \in inUse'[k], i \in DOMAIN pages'[k] :
                  /\ r[1] = lastAllocation'[k]
                  /\ Start(pages'[k][i]) <= r[1]
                  /\ r[2] = Start(pages'[k][i]) + pages'[k][i].used
    <3>1. k # m
      BY <2>1, <1>3, <1>6 DEF ClientsInv, RollbackPossible
    <3>2. QED
      BY <2>1, <3>1, <1>3, <1>7 DEF ClientsInv, RollbackPossible
  <2>2. QED
    BY <2>1 DEF RollbackPossible
<1>12. QED
  BY <1>2, <1>3, <1>10, <1>11 DEF Kept, ClientsInv

(* A manager that gives up all its pages, as SCOREP_Allocator_Free and
   SCOREP_Allocator_DeletePageManager do *)
LEMMA AllFreed ==
    ASSUME PagesInv, ClientsInv, NEW m \in Managers,
           allocator'.maintenance = allocator.maintenance,
           pages' = [pages EXCEPT ![m] = <<>>],
           mapping' = [mapping EXCEPT ![m] = NoMapping],
           lastAllocation' = [lastAllocation EXCEPT ![m] = 0],
           inUse' = [inUse EXCEPT ![m] = {}]
    PROVE  Kept
<1>1. /\ pages \in Lists /\ inUse \in [Managers -> SUBSET Regions]
      /\ mapping \in [Managers -> [PageIds -> PageIds]]
      /\ lastAllocation \in [Managers -> Int]
  BY DEF PagesInv, ClientsInv, RegionsKept
<1>2. /\ pages'[m] = <<>> /\ mapping'[m] = NoMapping
      /\ lastAllocation'[m] = 0 /\ inUse'[m] = {}
      /\ \A k \in Managers \ {m} :
            /\ pages'[k] = pages[k] /\ mapping'[k] = mapping[k]
            /\ lastAllocation'[k] = lastAllocation[k] /\ inUse'[k] = inUse[k]
  BY <1>1 DEF Lists
<1>3. RegionsKept(pages', inUse')
  <2>1. inUse' \in [Managers -> SUBSET Regions]
    BY <1>1
  <2>2. UsedInPage(pages')
    BY <1>2 DEF ClientsInv, RegionsKept, UsedInPage
  <2>3. \A k \in Managers : \A r \in inUse'[k] : k # m /\ r \in inUse[k]
    BY <1>2
  <2>4. RegionsApart(inUse')
    BY <2>3 DEF ClientsInv, RegionsKept, RegionsApart
  <2>5. \A k \in Managers : \A r \in inUse'[k] :
           \E i \in DOMAIN pages'[k] : Covers(pages'[k][i], r)
    BY <2>3, <1>2 DEF ClientsInv, RegionsKept
  <2>6. QED
    BY <2>1, <2>2, <2>4, <2>5 DEF RegionsKept
<1>4. RollbackPossible'
  <2>1. ASSUME NEW k \in Managers, lastAllocation'[k] # 0
        PROVE  \E r \in inUse'[k], i \in DOMAIN pages'[k] :
                  /\ r[1] = lastAllocation'[k]
                  /\ Start(pages'[k][i]) <= r[1]
                  /\ r[2] = Start(pages'[k][i]) + pages'[k][i].used
    <3>1. k # m
      BY <2>1, <1>2
    <3>2. QED
      BY <2>1, <3>1, <1>2 DEF ClientsInv, RollbackPossible
  <2>2. QED
    BY <2>1 DEF RollbackPossible
<1>5. NoMapping \in [PageIds -> PageIds] /\ \A q \in PageIds : NoMapping[q] = 0
  <2>1. 0 \in PageIds
    BY PagesAssumption DEF PageIds
  <2>2. QED
    BY <2>1 DEF NoMapping
<1>6. mapping' \in [Managers -> [PageIds -> PageIds]]
  BY <1>1, <1>5
<1>7. \A k \in Moved : \A r \in DOMAIN RemoteUsage : MappedRun(mapping'[k], inUse'[k], r)
  <2>1. ASSUME NEW k \in Moved, NEW r \in DOMAIN RemoteUsage
        PROVE  MappedRun(mapping'[k], inUse'[k], r)
    <3>1. r \in PageIds /\ k \in Managers
      BY RequestsAssumption DEF Managers
    <3>2. CASE k = m
      BY <1>2, <1>5, <3>1, <3>2 DEF MappedRun
    <3>3. CASE k # m
      <4>1. mapping'[k] = mapping[k] /\ inUse'[k] = inUse[k]
        BY <1>2, <3>1, <3>3
      <4>2. MappedRun(mapping[k], inUse[k], r)
        BY DEF ClientsInv
      <4>3. QED
        BY <4>1, <4>2
    <3>4. QED
      BY <3>2, <3>3
  <2>2. QED
    BY <2>1
<1>8. Abstract!Next
  BY DEF Abstract!Next, Abstract!Free
<1>9. QED
  BY <1>2, <1>3, <1>4, <1>6, <1>7, <1>8 DEF Kept, ClientsInv

(* SCOREP_Allocator_Free *)
LEMMA FreeKept ==
    ASSUME PagesInv, ClientsInv, NEW m \in Managers, Free(m)
    PROVE  Kept
<1>1. allocator'.maintenance = allocator.maintenance
  BY DEF Free, PutPages, PagesInv, AllocatorState
<1>2. QED
  BY <1>1, AllFreed DEF Free

(* SCOREP_Allocator_DeletePageManager *)
LEMMA DeleteKept ==
    ASSUME PagesInv, ClientsInv, NEW m \in Managers, Delete(m)
    PROVE  Kept
<1>1. allocator'.maintenance = allocator.maintenance
  BY DEF Delete, PutPages, PutObject, PagesInv, AllocatorState
<1>2. QED
  BY <1>1, AllFreed DEF Delete

(* page_manager_alloc, whichever page the region comes from *)
LEMMA HandOutKept ==
    ASSUME PagesInv, ClientsInv, PagesInv', 0 \in allocator'.maintenance,
           NEW m \in Managers, NEW size \in Sizes, NEW alignment \in Alignments,
           NEW h \in DOMAIN pages'[m], NEW p \in Descriptor, Refilled(m, p, h),
           pages'[m][h] = Grab(p, size, alignment), 0 <= p.used,
           Fits(p, size, alignment), HandOut(m, p, size, alignment),
           mapping' = mapping
    PROVE  Kept
<1> DEFINE b == GrabAt(p, alignment)
           R == <<Start(p) + b, Start(p) + (b + size)>>
<1>1. size \in Nat \ {0} /\ alignment \in Nat \ {0}
  BY RequestsAssumption, PagesAssumption
<1>2. b \in Nat /\ p.used <= b
  BY <1>1, RoundUpFacts DEF GrabAt, Descriptor
<1>3. b + size <= p.order * PageSize /\ b + size \in Int /\ b < b + size
      /\ (b + size) - b \in Sizes
  BY <1>1, <1>2 DEF Fits
<1>4. pages'[m][h] = [p EXCEPT !.used = b + size]
  BY DEF Grab
<1>5. Start(p) \in Int
  BY PagesAssumption DEF Start, Descriptor
<1> HIDE DEF b
<1>6. R = Region(p, size, alignment)
  BY <1>1, <1>2, <1>5 DEF Region, b
<1>7. inUse' = [inUse EXCEPT ![m] = @ \cup {<<Start(p) + b, Start(p) + (b + size)>>}]
  BY <1>6 DEF HandOut
<1>8. RegionsKept(pages', inUse') /\ Abstract!Next /\ R \in Regions
  <2> DEFINE n == b + size
  <2>1. /\ n <= p.order * PageSize /\ n \in Int /\ b < n
        /\ n - b \in Sizes \cup {RemoteUsage[r] : r \in DOMAIN RemoteUsage}
        /\ pages'[m][h] = [p EXCEPT !.used = n]
        /\ inUse' = [inUse EXCEPT ![m] = @ \cup {<<Start(p) + b, Start(p) + n>>}]
        /\ b \in Int /\ p.used <= b
    BY <1>2, <1>3, <1>4, <1>7
  <2> HIDE DEF n
  <2>2. /\ RegionsKept(pages', inUse') /\ Abstract!Next
        /\ <<Start(p) + b, Start(p) + n>> \in Regions
    BY <2>1, AddStep
  <2>3. QED
    BY <2>2 DEF n
<1>9. lastAllocation' = IF m \in Definitions
                        THEN [lastAllocation EXCEPT ![m] = Start(p) + b]
                        ELSE lastAllocation
  <2>1. Region(p, size, alignment)[1] = Start(p) + b
    BY <1>6
  <2>2. QED
    BY <2>1 DEF HandOut
<1>10. /\ inUse \in [Managers -> SUBSET Regions] /\ lastAllocation \in [Managers -> Int]
       /\ \A k \in Managers \ {m} : pages'[k] = pages[k]
  BY DEF ClientsInv, RegionsKept, PagesInv, Refilled
<1>11. \A k \in Managers : inUse[k] \subseteq inUse'[k]
  BY <1>7, <1>10
<1>12. \A k \in Managers : lastAllocation'[k] # 0 => k \in Definitions
  BY <1>9, <1>10 DEF ClientsInv
<1>13. RollbackPossible'
  <2>1. ASSUME NEW k \in Managers, lastAllocation'[k] # 0
        PROVE  \E r \in inUse'[k], i \in DOMAIN pages'[k] :
                  /\ r[1] = lastAllocation'[k]
                  /\ Start(pages'[k][i]) <= r[1]
                  /\ r[2] = Start(pages'[k][i]) + pages'[k][i].used
    <3>1. CASE k # m
      <4>1. lastAllocation[k] # 0 /\ lastAllocation'[k] = lastAllocation[k]
            /\ pages'[k] = pages[k]
        BY <2>1, <3>1, <1>9, <1>10
      <4>2. QED
        BY <4>1, <1>11 DEF ClientsInv, RollbackPossible
    <3>2. CASE k = m
      <4>1. lastAllocation'[m] = Start(p) + b
        BY <2>1, <3>2, <1>9, <1>10, <1>12
      <4>2. R \in inUse'[m]
        BY <1>7, <1>10
      <4>3. Start(pages'[m][h]) = Start(p) /\ pages'[m][h].used = b + size
        BY <1>4 DEF Descriptor, Start
      <4>4. R[1] = Start(p) + b /\ R[2] = Start(p) + (b + size)
        OBVIOUS
      <4> HIDE DEF R
      <4>5. Start(p) <= Start(p) + b
        BY <1>2, <1>5
      <4>6. QED
        BY <3>2, <4>1, <4>2, <4>3, <4>4, <4>5
    <3>3. QED
      BY <3>1, <3>2
  <2>2. QED
    BY <2>1 DEF RollbackPossible
<1>14. \A k \in Moved : \A r \in DOMAIN RemoteUsage : MappedRun(mapping'[k], inUse'[k], r)
  BY <1>11 DEF ClientsInv, MappedRun, Managers
<1>15. QED
  BY <1>8, <1>12, <1>13, <1>14 DEF Kept, ClientsInv

(* An unused page serves any alignment from its first byte. *)
LEMMA RoundUpZero ==
    ASSUME NEW k \in Nat \ {0}
    PROVE  RoundUp(0, k) = 0
<1> DEFINE a == (k - 1) \div k
           b == (k - 1) % k
<1>1. a \in Nat /\ b \in 0..k - 1 /\ k - 1 = a * k + b
  BY Division
<1>2. 0 + k - 1 = k - 1
  OBVIOUS
<1>3. RoundUp(0, k) = a * k
  BY <1>2 DEF RoundUp
<1> HIDE DEF a, b
<1>4. a = 0
  <2>1. a * k + b = 0 * k + (k - 1) /\ k - 1 \in 0..k - 1
    BY <1>1
  <2>2. QED
    BY <2>1, <1>1, DivisionUnique
<1>5. QED
  BY <1>3, <1>4

(* What a list is after a page was put in front of it *)
LEMMA Pushed ==
    ASSUME pages \in Lists, NEW m \in Managers, NEW q \in Descriptor, NEW p,
           pages' = [pages EXCEPT ![m] = <<q>> \o @]
    PROVE  1 \in DOMAIN pages'[m] /\ pages'[m][1] = q /\ Refilled(m, p, 1)
<1>1. pages[m] \in Seq(Descriptor) /\ <<q>> \in Seq(Descriptor) /\ Len(<<q>>) = 1
      /\ <<q>>[1] = q
  BY DEF Lists
<1>2. /\ pages'[m] = <<q>> \o pages[m]
      /\ \A k \in Managers \ {m} : pages'[k] = pages[k]
  BY DEF Lists
<1>3. /\ Len(pages[m]) \in Nat /\ DOMAIN pages[m] = 1..Len(pages[m])
      /\ pages'[m] \in Seq(Descriptor)
      /\ Len(pages'[m]) = 1 + Len(pages[m])
      /\ \A i \in 1..1 + Len(pages[m]) :
            pages'[m][i] = IF i <= 1 THEN <<q>>[i] ELSE pages[m][i - 1]
  BY <1>1, <1>2, ConcatProperties, LenProperties
<1>4. DOMAIN pages'[m] = 1..1 + Len(pages[m])
  BY <1>3, LenProperties
<1>5. 1 \in DOMAIN pages'[m] /\ pages'[m][1] = q
  BY <1>1, <1>3, <1>4
<1>6. \A i \in DOMAIN pages[m] : /\ i + 1 \in DOMAIN pages'[m] /\ i + 1 # 1
                                 /\ pages'[m][i + 1] = pages[m][i]
  BY <1>3, <1>4
<1>7. \A j \in DOMAIN pages'[m] : j # 1 => /\ j - 1 \in DOMAIN pages[m]
                                           /\ pages'[m][j] = pages[m][j - 1]
  BY <1>3, <1>4
<1>8. QED
  BY <1>2, <1>5, <1>6, <1>7 DEF Refilled

(* SCOREP_Allocator_Alloc, AlignedAlloc and AllocMovable *)
LEMMA PageManagerAllocKept ==
    ASSUME PagesInv, ClientsInv, PagesInv', NEW m \in Managers,
           NEW size \in Sizes, NEW alignment \in Alignments,
           PageManagerAlloc(m, size, alignment)
    PROVE  Kept
<1> DEFINE order == Order(size)
           g == GetPage(allocator, order)
<1>1. mapping' = mapping
  BY DEF PageManagerAlloc
<1>2. order \in Nat \ {0} /\ size \in Nat \ {0} /\ alignment \in Nat \ {0}
  BY OrderPositive, RequestsAssumption, PagesAssumption
<1>3. 0 \in allocator.maintenance
  BY DEF ClientsInv
<1>4. 0 \in g.a.maintenance
  <2> HIDE DEF order
  <2> QED BY <1>2, <1>3, MaintenanceKept
<1>5. pages \in Lists
  BY DEF PagesInv
<1>6. CASE AllocFromList(m, size, alignment)
  <2>1. PICK i \in DOMAIN pages[m] :
           /\ Fits(pages[m][i], size, alignment)
           /\ pages' = [pages EXCEPT ![m][i] = Grab(@, size, alignment)]
           /\ HandOut(m, pages[m][i], size, alignment)
           /\ UNCHANGED allocator
    BY <1>6 DEF AllocFromList
  <2>2. pages[m][i] \in Descriptor
    BY <1>5, LenProperties DEF Lists
  <2>3. 0 <= pages[m][i].used
    BY DEF ClientsInv, RegionsKept, UsedInPage
  <2>4. /\ pages'[m] = [pages[m] EXCEPT ![i] = Grab(pages[m][i], size, alignment)]
        /\ \A k \in Managers \ {m} : pages'[k] = pages[k]
    BY <2>1, <1>5 DEF Lists
  <2>5. /\ DOMAIN pages'[m] = DOMAIN pages[m]
        /\ pages'[m][i] = Grab(pages[m][i], size, alignment)
        /\ \A j \in DOMAIN pages[m] : j # i => pages'[m][j] = pages[m][j]
    BY <2>4
  <2>6. Refilled(m, pages[m][i], i)
    BY <2>4, <2>5 DEF Refilled
  <2>7. 0 \in allocator'.maintenance /\ i \in DOMAIN pages'[m]
    BY <1>3, <2>1, <2>5
  <2>8. QED
    BY <1>1, <2>1, <2>2, <2>3, <2>5, <2>6, <2>7, HandOutKept
<1>7. CASE AllocFromNewPage(m, size, alignment)
  <2> DEFINE p == g.page[1]
  <2>1. /\ g.ok /\ allocator' = g.a
        /\ pages' = [pages EXCEPT ![m] = <<Grab(p, size, alignment)>> \o @]
        /\ HandOut(m, p, size, alignment)
    BY <1>7 DEF AllocFromNewPage
  <2>2. p \in Descriptor
    <3>1. GotPage(allocator, g)
      <4> HIDE DEF order
      <4> QED BY <1>2, GetPageFacts DEF PagesInv
    <3> HIDE DEF g
    <3>2. PICK q \in Descriptor : g.page = <<q>>
      BY <2>1, <3>1 DEF GotPage
    <3>3. QED
      BY <3>2
  <2>3. p.used = 0 /\ p.order = order
    <3>1. PICK id : g.page = <<[id |-> id, order |-> order, used |-> 0]>>
      <4> HIDE DEF order
      <4> QED BY <2>1, NewPage
    <3> HIDE DEF g, order
    <3>2. QED
      BY <3>1
  <2> HIDE DEF p
  <2>4. Fits(p, size, alignment)
    <3>1. GrabAt(p, alignment) = 0
      BY <2>3, <1>2, RoundUpZero DEF GrabAt
    <3>2. size <= order * PageSize
      BY <1>2, OrderEnough
    <3>3. QED
      <4> HIDE DEF order
      <4> QED BY <3>1, <3>2, <2>3, <1>2 DEF Fits
  <2>5. Grab(p, size, alignment) \in Descriptor
    BY <2>2, GrabType
  <2>6. /\ 1 \in DOMAIN pages'[m] /\ pages'[m][1] = Grab(p, size, alignment)
        /\ Refilled(m, p, 1)
    BY <2>1, <2>5, <1>5, Pushed
  <2>7. 0 \in allocator'.maintenance /\ 0 <= p.used
    BY <1>4, <2>1, <2>3
  <2>8. QED
    BY <1>1, <2>1, <2>2, <2>4, <2>6, <2>7, HandOutKept
<1>8. CASE AllocFails(m, size, alignment)
  <2>1. /\ allocator' = g.a /\ pages' = pages /\ inUse' = inUse
        /\ lastAllocation' = lastAllocation
    BY <1>8 DEF AllocFails
  <2>2. 0 \in allocator'.maintenance
    BY <1>4, <2>1
  <2>3. QED
    BY <1>1, <2>1, <2>2, QuietStep DEF Kept
<1>9. QED
  BY <1>6, <1>7, <1>8 DEF PageManagerAlloc

(* SCOREP_Allocator_RollbackAllocMovable finds the page of the last region,
   which ends that page's used part, and takes back that region only. *)
LEMMA RollbackKept ==
    ASSUME PagesInv, ClientsInv, NEW m \in Managers, RollbackAllocMovable(m)
    PROVE  Kept
<1> DEFINE last == lastAllocation[m]
<1>1. PICK i \in DOMAIN pages[m] :
         /\ Start(pages[m][i]) <= last /\ last < Start(pages[m][i]) + pages[m][i].used
         /\ pages' = [pages EXCEPT ![m][i].used = last - Start(pages[m][i])]
  BY DEF RollbackAllocMovable
<1>2. /\ last # 0
      /\ lastAllocation' = [lastAllocation EXCEPT ![m] = 0]
      /\ inUse' = [inUse EXCEPT ![m] = {r \in inUse[m] : r[1] # last}]
      /\ allocator' = allocator /\ mapping' = mapping
  BY DEF RollbackAllocMovable
<1>3. PICK R \in inUse[m], j \in DOMAIN pages[m] :
         /\ R[1] = last /\ Start(pages[m][j]) <= R[1]
         /\ R[2] = Start(pages[m][j]) + pages[m][j].used
  BY <1>2 DEF ClientsInv, RollbackPossible
<1>4. LaidOut(pages)
  BY LaidOutNow DEF ClientsInv
<1>5. /\ inUse \in [Managers -> SUBSET Regions] /\ lastAllocation \in [Managers -> Int]
      /\ pages \in Lists
  BY DEF ClientsInv, RegionsKept, PagesInv
<1> DEFINE p == pages[m][i]
           q == pages[m][j]
<1>6. /\ p \in Descriptor /\ q \in Descriptor
      /\ Start(p) \in Int /\ Start(q) \in Int /\ p.used \in Int /\ q.used \in Int
      /\ p.order * PageSize \in Int /\ q.order * PageSize \in Int
      /\ End(p) = Start(p) + p.order * PageSize /\ End(q) = Start(q) + q.order * PageSize
  BY <1>4, PagesAssumption DEF LaidOut, Descriptor, Start, End
<1>7. /\ 0 <= p.used /\ p.used <= p.order * PageSize
      /\ 0 <= q.used /\ q.used <= q.order * PageSize
  BY DEF ClientsInv, RegionsKept, UsedInPage
<1>8. R \in Regions /\ R[1] \in Int /\ R[2] \in Int /\ R[1] < R[2]
  BY <1>5, RegionBounds, PagesAssumption DEF Memory
<1>9. i = j
  <2>1. last < End(p) /\ last < End(q)
    BY <1>1, <1>3, <1>6, <1>7, <1>8
  <2>2. ~(End(p) <= Start(q)) /\ ~(End(q) <= Start(p))
    BY <2>1, <1>1, <1>3, <1>6, <1>8
  <2>3. QED
    BY <2>2, <1>4 DEF LaidOut
<1>10. last = R[1] /\ R[2] = Start(p) + p.used
  BY <1>3, <1>9
<1> HIDE DEF last
<1>11. /\ pages'[m] = [pages[m] EXCEPT ![i] = [p EXCEPT !.used = last - Start(p)]]
       /\ \A k \in Managers \ {m} : pages'[k] = pages[k]
  BY <1>1, <1>5 DEF Lists
<1>12. /\ DOMAIN pages'[m] = DOMAIN pages[m]
       /\ \A h \in DOMAIN pages[m] : h # i => pages'[m][h] = pages[m][h]
       /\ pages'[m][i] = [p EXCEPT !.used = last - Start(p)]
  BY <1>11
<1>13. /\ pages'[m][i].used = last - Start(p) /\ pages'[m][i].order = p.order
       /\ Start(pages'[m][i]) = Start(p)
  BY <1>6, <1>12 DEF Descriptor, Start
<1> HIDE DEF p, q
<1>14. ASSUME NEW n \in Managers, NEW s \in inUse[n], <<n, s>> # <<m, R>>
       PROVE  /\ s[1] \in Int /\ s[2] \in Int /\ s[1] < s[2]
              /\ s[2] <= R[1] \/ R[2] <= s[1]
  <2>1. Abstract!Apart(s, R)
    BY <1>14 DEF ClientsInv, RegionsKept, RegionsApart
  <2>2. s \in Regions /\ s[1] \in Int /\ s[2] \in Int /\ s[1] < s[2]
    BY <1>5, RegionBounds, PagesAssumption DEF Memory
  <2>3. QED
    BY <2>1, <2>2 DEF Abstract!Apart
<1>15. {r \in inUse[m] : r[1] # last} = inUse[m] \ {R}
  <2>1. \A r \in inUse[m] : r # R => r[1] # R[1]
    BY <1>8, <1>14
  <2>2. QED
    BY <2>1, <1>10
<1>16. /\ inUse'[m] = inUse[m] \ {R}
       /\ \A k \in Managers \ {m} : inUse'[k] = inUse[k]
       /\ inUse' = [inUse EXCEPT ![m] = @ \ {R}]
  BY <1>2, <1>5, <1>15
<1>17. Abstract!Next
  BY <1>16 DEF Abstract!Next, Abstract!Discard
<1>18. UsedInPage(pages')
  <2>1. ASSUME NEW k \in Managers, NEW h \in DOMAIN pages'[k]
        PROVE  0 <= pages'[k][h].used /\ pages'[k][h].used <= pages'[k][h].order * PageSize
    <3>1. CASE k = m /\ h = i
      <4>1. 0 <= last - Start(p) /\ last - Start(p) <= p.order * PageSize
        BY <1>1, <1>6, <1>7, <1>8, <1>10 DEF p
      <4>2. QED
        BY <4>1, <3>1, <1>13
    <3>2. CASE k = m /\ h # i
      <4>1. pages'[k][h] = pages[k][h] /\ h \in DOMAIN pages[k]
        BY <3>2, <1>12
      <4>2. QED
        BY <4>1 DEF ClientsInv, RegionsKept, UsedInPage
    <3>3. CASE k # m
      <4>1. pages'[k] = pages[k]
        BY <3>3, <1>11
      <4>2. QED
        BY <4>1 DEF ClientsInv, RegionsKept, UsedInPage
    <3>4. QED
      BY <3>1, <3>2, <3>3
  <2>2. QED
    BY <2>1 DEF UsedInPage
<1>19. ASSUME NEW k \in Managers, NEW s \in inUse'[k]
       PROVE  \E h \in DOMAIN pages'[k] : Covers(pages'[k][h], s)
  <2>1. s \in inUse[k] /\ <<k, s>> # <<m, R>>
    BY <1>16
  <2>2. PICK h \in DOMAIN pages[k] : Covers(pages[k][h], s)
    BY <2>1 DEF ClientsInv, RegionsKept
  <2>3. CASE k = m /\ h = i
    <3>1. Start(p) <= s[1] /\ s[2] <= Start(p) + p.used
      BY <2>2, <2>3 DEF Covers, p
    <3>2. s[1] \in Int /\ s[2] \in Int /\ s[1] < s[2] /\ (s[2] <= R[1] \/ R[2] <= s[1])
      BY <2>1, <1>14
    <3>3. s[2] <= Start(p) + (last - Start(p))
      BY <3>1, <3>2, <1>6, <1>8, <1>10 DEF p
    <3>4. Covers(pages'[m][i], s)
      BY <3>1, <3>3, <1>13 DEF Covers
    <3>5. QED
      BY <3>4, <2>3, <1>12
  <2>4. CASE k = m /\ h # i
    BY <2>2, <2>4, <1>12
  <2>5. CASE k # m
    BY <2>2, <2>5, <1>11
  <2>6. QED
    BY <2>3, <2>4, <2>5
<1>20. RegionsKept(pages', inUse')
  <2>1. inUse' \in [Managers -> SUBSET Regions]
    BY <1>5, <1>16
  <2>2. \A k \in Managers : inUse'[k] \subseteq inUse[k]
    BY <1>16
  <2>3. RegionsApart(inUse')
    BY <2>2 DEF ClientsInv, RegionsKept, RegionsApart
  <2>4. QED
    BY <2>1, <2>3, <1>18, <1>19 DEF RegionsKept
<1>21. RollbackPossible'
  <2>1. ASSUME NEW k \in Managers, lastAllocation'[k] # 0
        PROVE  \E r \in inUse'[k], h \in DOMAIN pages'[k] :
                  /\ r[1] = lastAllocation'[k]
                  /\ Start(pages'[k][h]) <= r[1]
                  /\ r[2] = Start(pages'[k][h]) + pages'[k][h].used
    <3>1. k # m /\ lastAllocation'[k] = lastAllocation[k]
      BY <2>1, <1>2, <1>5
    <3>2. QED
      BY <2>1, <3>1, <1>11, <1>16 DEF ClientsInv, RollbackPossible
  <2>2. QED
    BY <2>1 DEF RollbackPossible
<1>22. \A k \in Managers : lastAllocation'[k] # 0 => k \in Definitions
  BY <1>2, <1>5 DEF ClientsInv
<1>23. \A k \in Moved : \A r \in DOMAIN RemoteUsage : MappedRun(mapping'[k], inUse'[k], r)
  <2>1. m \in Definitions
    BY <1>2 DEF ClientsInv, last
  <2>2. \A k \in Moved : k \in Managers /\ k # m
    BY <2>1, MovedAssumption DEF Managers
  <2>3. QED
    BY <2>2, <1>2, <1>16 DEF ClientsInv
<1>24. QED
  BY <1>2, <1>17, <1>20, <1>21, <1>22, <1>23 DEF Kept, ClientsInv

(* SCOREP_Allocator_AllocMovedPage: the run gets one region of its own and a
   stretch of the mapping that no other run has. *)
LEMMA AllocMovedPageKept ==
    ASSUME PagesInv, ClientsInv, PagesInv', NEW m \in Managers,
           NEW r \in DOMAIN RemoteUsage, AllocMovedPage(m, r)
    PROVE  Kept
<1> DEFINE n == RemoteUsage[r]
           order == Order(n)
           g == GetPage(allocator, order)
           page == [g.page[1] EXCEPT !.used = n]
<1>1. order \in Nat \ {0} /\ n \in Nat \ {0} /\ r \in PageIds \ {0}
  BY OrderPositive, RequestsAssumption
<1>2. 0 \in g.a.maintenance
  <2> HIDE DEF order
  <2> QED BY <1>1, MaintenanceKept DEF ClientsInv
<1>3. GotPage(allocator, g)
  <2> HIDE DEF order
  <2> QED BY <1>1, GetPageFacts DEF PagesInv
<1>4. /\ m \in Moved /\ allocator' = g.a
      /\ lastAllocation' = lastAllocation
      /\ g.ok => /\ pages' = [pages EXCEPT ![m] = <<page>> \o @]
                 /\ mapping' = [mapping EXCEPT ![m] = MapSpan(@, r, page)]
                 /\ inUse' = [inUse EXCEPT ![m] =
                                @ \cup {<<Start(page), Start(page) + page.used>>}]
      /\ ~g.ok => pages' = pages /\ mapping' = mapping /\ inUse' = inUse
  BY DEF AllocMovedPage
<1>5. CASE ~g.ok
  BY <1>2, <1>4, <1>5, QuietStep DEF Kept
<1>6. CASE g.ok
  <2> DEFINE p == g.page[1]
  <2>1. p \in Descriptor /\ Span(p) \subseteq PageIds
    <3> HIDE DEF g
    <3>1. PICK q \in Descriptor : g.page = <<q>> /\ Span(q) \subseteq g.a.bitset
      BY <1>3, <1>6 DEF GotPage
    <3>2. g.a.bitset \subseteq PageIds
      BY <1>3 DEF GotPage, AllocatorState
    <3>3. QED
      BY <3>1, <3>2
  <2>2. p.used = 0 /\ p.order = order
    <3>1. PICK id : g.page = <<[id |-> id, order |-> order, used |-> 0]>>
      <4> HIDE DEF order
      <4> QED BY <1>6, NewPage
    <3> HIDE DEF g, order
    <3>2. QED
      BY <3>1
  <2> HIDE DEF p
  <2>3. page = [p EXCEPT !.used = n]
    BY DEF p
  <2>4. /\ page \in Descriptor /\ page.id = p.id /\ page.order = order
        /\ page.used = n /\ Start(page) = Start(p) /\ Start(p) \in Int
    BY <2>1, <2>2, <2>3, <1>1, PagesAssumption DEF Descriptor, Start
  <2> HIDE DEF page
  <2>5. pages' = [pages EXCEPT ![m] = <<page>> \o @]
    BY <1>4, <1>6
  <2>6. /\ 1 \in DOMAIN pages'[m] /\ pages'[m][1] = page
        /\ Refilled(m, p, 1)
    BY <2>4, <2>5, Pushed DEF PagesInv
  <2>7. n <= order * PageSize
    BY <1>1, OrderEnough
  <2>8. <<Start(p) + 0, Start(p) + n>> = <<Start(page), Start(page) + page.used>>
    BY <2>4
  <2>9. RegionsKept(pages', inUse') /\ Abstract!Next
    <3>1. 0 \in allocator'.maintenance
      BY <1>2, <1>4
    <3>2. n - 0 \in Sizes \cup {RemoteUsage[s] : s \in DOMAIN RemoteUsage}
      BY <1>1
    <3>3. inUse' = [inUse EXCEPT ![m] = @ \cup {<<Start(p) + 0, Start(p) + n>>}]
      BY <1>4, <1>6, <2>8
    <3>4. /\ 0 <= p.used /\ p.used <= 0 /\ 0 < n /\ n <= p.order * PageSize
          /\ 0 \in Int /\ n \in Int
      BY <1>1, <2>2, <2>7
    <3>5. pages'[m][1] = [p EXCEPT !.used = n]
      BY <2>3, <2>6
    <3> HIDE DEF n
    <3>6. QED
      BY <3>1, <3>2, <3>3, <3>4, <3>5, <2>1, <2>6, AddStep
  <2>10. m \notin Definitions /\ lastAllocation[m] = 0
    BY <1>4, MovedAssumption DEF ClientsInv
  <2>11. RollbackPossible'
    <3>1. ASSUME NEW k \in Managers, lastAllocation'[k] # 0
          PROVE  \E s \in inUse'[k], h \in DOMAIN pages'[k] :
                    /\ s[1] = lastAllocation'[k]
                    /\ Start(pages'[k][h]) <= s[1]
                    /\ s[2] = Start(pages'[k][h]) + pages'[k][h].used
      <4>1. k # m /\ lastAllocation[k] # 0
        BY <3>1, <2>10, <1>4
      <4>2. pages'[k] = pages[k] /\ inUse'[k] = inUse[k]
        BY <4>1, <2>6, <1>4, <1>6 DEF Refilled, ClientsInv, RegionsKept
      <4>3. QED
        BY <4>1, <4>2, <1>4 DEF ClientsInv, RollbackPossible
    <3>2. QED
      BY <3>1 DEF RollbackPossible
  <2>12. page.id # 0
    <3>1. LaidOut(pages')
      BY <1>2, <1>4, LaidOutNext
    <3>2. Start(page) \in PageSize..Memory
      BY <3>1, <2>6 DEF LaidOut
    <3>3. QED
      BY <3>2, <2>4, PagesAssumption DEF Start, Memory, Descriptor
  <2> DEFINE f == mapping[m]
             fs == MapSpan(f, r, page)
  <2>13. /\ mapping \in [Managers -> [PageIds -> PageIds]]
         /\ inUse \in [Managers -> SUBSET Regions]
    BY DEF ClientsInv, RegionsKept
  <2>14. /\ mapping'[m] = fs /\ \A k \in Managers \ {m} : mapping'[k] = mapping[k]
         /\ mapping' = [mapping EXCEPT ![m] = fs]
         /\ inUse'[m] = inUse[m] \cup {<<Start(page), Start(page) + page.used>>}
         /\ \A k \in Managers \ {m} : inUse'[k] = inUse[k]
    BY <1>4, <1>6, <2>13
  <2>15. RemoteRun(r) = r..r + order - 1
    BY DEF RemoteRun
  <2>16. \A q \in PageIds : fs[q] = IF q \in RemoteRun(r) THEN page.id + (q - r) ELSE f[q]
    BY <2>4, <2>15 DEF MapSpan
  <2>17. \A q \in RemoteRun(r) : page.id + (q - r) \in PageIds
    <3>1. ASSUME NEW q \in RemoteRun(r)
          PROVE  page.id + (q - r) \in PageIds
      <4>1. q \in Int /\ r <= q /\ q <= r + order - 1 /\ r \in Int
        BY <3>1, <2>15, <1>1 DEF PageIds
      <4> HIDE DEF order
      <4>2. page.id + (q - r) \in Span(p)
        BY <4>1, <2>1, <2>2, <2>4, <1>1 DEF Span, Descriptor
      <4>3. QED
        BY <4>2, <2>1
    <3>2. QED
      BY <3>1
  <2>18. fs \in [PageIds -> PageIds]
    <3>1. \A q \in PageIds : fs[q] \in PageIds
      BY <2>13, <2>16, <2>17
    <3>2. fs = [q \in PageIds |-> fs[q]]
      BY DEF MapSpan
    <3> HIDE DEF fs
    <3>3. QED
      BY <3>1, <3>2
  <2> HIDE DEF fs, f
  <2>19. mapping' \in [Managers -> [PageIds -> PageIds]]
    BY <2>13, <2>14, <2>18
  <2>20. \A s \in DOMAIN RemoteUsage : s \in RemoteRun(s) /\ RemoteRun(s) \subseteq PageIds
    <3>1. ASSUME NEW s \in DOMAIN RemoteUsage
          PROVE  s \in RemoteRun(s)
      <4>1. Order(RemoteUsage[s]) \in Nat \ {0} /\ s \in Int
        BY OrderPositive, RequestsAssumption DEF PageIds
      <4>2. QED
        BY <4>1 DEF RemoteRun
    <3>2. QED
      BY <3>1, MovedAssumption
  <2>21. MappedRun(fs, inUse'[m], r)
    <3>1. fs[r] = page.id
      <4>1. r \in RemoteRun(r) /\ r \in PageIds
        BY <2>20
      <4>2. fs[r] = page.id + (r - r)
        BY <4>1, <2>16
      <4>3. r \in Int /\ page.id \in Int
        BY <1>1, <2>4 DEF PageIds, Descriptor
      <4>4. QED
        BY <4>2, <4>3
    <3>2. <<fs[r] * PageSize, fs[r] * PageSize + RemoteUsage[r]>> \in inUse'[m]
      BY <3>1, <2>4, <2>14 DEF Start
    <3>3. \A q \in RemoteRun(r) : fs[q] = fs[r] + (q - r)
      BY <3>1, <2>16, <2>20
    <3>4. QED
      BY <3>2, <3>3 DEF MappedRun
  <2>22. ASSUME NEW s \in DOMAIN RemoteUsage, s # r
         PROVE  MappedRun(fs, inUse'[m], s)
    <3>1. RemoteRun(s) \cap RemoteRun(r) = {}
      BY <2>22, MovedAssumption
    <3>2. \A q \in RemoteRun(s) : fs[q] = f[q]
      BY <3>1, <2>16, <2>20
    <3>3. MappedRun(f, inUse[m], s)
      BY <1>4 DEF ClientsInv, f
    <3>4. fs[s] = f[s] /\ inUse[m] \subseteq inUse'[m]
      BY <3>2, <2>14, <2>20
    <3>5. QED
      BY <3>2, <3>3, <3>4 DEF MappedRun
  <2>23. \A k \in Moved : \A s \in DOMAIN RemoteUsage : MappedRun(mapping'[k], inUse'[k], s)
    <3>1. ASSUME NEW k \in Moved, NEW s \in DOMAIN RemoteUsage
          PROVE  MappedRun(mapping'[k], inUse'[k], s)
      <4>1. CASE k = m
        BY <4>1, <2>14, <2>21, <2>22
      <4>2. CASE k # m
        <5>1. mapping'[k] = mapping[k] /\ inUse'[k] = inUse[k]
          BY <4>2, <2>14 DEF Managers
        <5>2. QED
          BY <5>1 DEF ClientsInv
      <4>3. QED
        BY <4>1, <4>2
    <3>2. QED
      BY <3>1
  <2>24. /\ 0 \in allocator'.maintenance
         /\ \A k \in Managers : lastAllocation'[k] # 0 => k \in Definitions
    BY <1>2, <1>4 DEF ClientsInv
  <2>25. QED
    BY <2>9, <2>11, <2>19, <2>23, <2>24 DEF Kept, ClientsInv
<1>7. QED
  BY <1>5, <1>6

-----------------------------------------------------------------------------
(* All operations *)

LEMMA ClientsInit == Init => ClientsInv /\ Abstract!Init
<1> SUFFICES ASSUME Init
             PROVE  ClientsInv /\ Abstract!Init
  OBVIOUS
<1>1. 0 \in allocator.maintenance
  BY PagesAssumption DEF Init
<1>2. RegionsKept(pages, inUse)
  BY DEF Init, RegionsKept, UsedInPage, RegionsApart
<1>3. RollbackPossible /\ \A m \in Managers : lastAllocation[m] = 0
  BY DEF Init, RollbackPossible
<1>4. 0 \in PageIds
  BY PagesAssumption DEF PageIds
<1>5. mapping \in [Managers -> [PageIds -> PageIds]]
  BY <1>4 DEF Init, NoMapping
<1>6. \A m \in Moved : \A r \in DOMAIN RemoteUsage : mapping[m][r] = 0
  BY RequestsAssumption DEF Init, NoMapping, Managers
<1>7. Abstract!Init
  BY DEF Init, Abstract!Init
<1>8. QED
  BY <1>1, <1>2, <1>3, <1>5, <1>6, <1>7 DEF ClientsInv, MappedRun

LEMMA ClientsNext == PagesInv /\ ClientsInv /\ [Next]_vars => Kept
<1> SUFFICES ASSUME PagesInv, ClientsInv, [Next]_vars
             PROVE  Kept
  OBVIOUS
<1>1. PagesInv'
  BY PagesInvNext
<1>2. CASE UNCHANGED vars
  BY <1>2, QuietStep DEF vars, Kept, ClientsInv
<1>3. ASSUME NEW m \in Managers,
             CreateObject(m) \/ CreatePage(m) \/ CreateMapping(m)
      PROVE  Kept
  BY <1>3, CreateObjectKept, CreatePageKept, CreateMappingKept
<1>4. ASSUME NEW m \in Managers, Free(m) \/ Delete(m) \/ RollbackAllocMovable(m)
      PROVE  Kept
  BY <1>4, FreeKept, DeleteKept, RollbackKept
<1>5. ASSUME NEW m \in Managers, NEW size \in Sizes, NEW alignment \in Alignments,
             Alloc(m, size, alignment)
      PROVE  Kept
  BY <1>1, <1>5, PageManagerAllocKept DEF Alloc
<1>6. ASSUME NEW m \in Managers, NEW size \in Sizes, AllocMovable(m, size)
      PROVE  Kept
  BY <1>1, <1>6, PageManagerAllocKept, RequestsAssumption DEF AllocMovable
<1>7. ASSUME NEW m \in Managers, NEW r \in DOMAIN RemoteUsage, AllocMovedPage(m, r)
      PROVE  Kept
  BY <1>1, <1>7, AllocMovedPageKept
<1>8. QED
  BY <1>2, <1>3, <1>4, <1>5, <1>6, <1>7 DEF Next

(* What clients hold in every reachable state: regions apart from each other
   inside their manager's pages, the last movable one at the end of a page,
   and complete mappings of the runs that have arrived. *)
THEOREM ClientsInvariance == Spec => [](PagesInv /\ ClientsInv)
<1>1. Init => PagesInv /\ ClientsInv
  BY PagesInvInit, ClientsInit
<1>2. PagesInv /\ ClientsInv /\ [Next]_vars => PagesInv' /\ ClientsInv'
  BY PagesInvNext, ClientsNext DEF Kept
<1>3. QED
  BY <1>1, <1>2, PTL DEF Spec

(* The allocator implements what it promises its clients: a region that
   page_manager_alloc or AllocMovedPage hands out shares no byte with any
   other in use, and regions vanish only by Free, Delete or rollback. *)
THEOREM Refinement == Spec => ImplementsAllocatorSpec
<1>1. Init => Abstract!Init
  BY ClientsInit
<1>2. PagesInv /\ ClientsInv /\ [Next]_vars => [Abstract!Next]_inUse
  BY ClientsNext DEF Kept
<1>3. QED
  BY <1>1, <1>2, ClientsInvariance, PTL DEF Spec, ImplementsAllocatorSpec, Abstract!Spec

(* SCOREP_Allocator_RollbackAllocMovable always finds the page of the last
   movable allocation, whose region ends the used part of that page: nothing
   that was allocated later can be lost with it. *)
THEOREM Rollback == Spec => []RollbackPossible
<1>1. ClientsInv => RollbackPossible
  BY DEF ClientsInv
<1>2. QED
  BY <1>1, ClientsInvariance, PTL

(* SCOREP_Allocator_GetPageInfos announces every page with a definition in it
   to the process that unifies the definitions. *)
THEOREM InfosComplete == Spec => []PageInfosComplete
<1>1. ASSUME PagesInv, ClientsInv
      PROVE  PageInfosComplete
  <2>1. ASSUME NEW m \in Definitions, NEW r \in inUse[m]
        PROVE  \E p \in PageInfos(m) : Start(p) <= r[1] /\ r[2] <= Start(p) + p.used
    <3>1. m \in Managers /\ inUse[m] \subseteq Regions
      BY <1>1 DEF Managers, ClientsInv, RegionsKept
    <3>2. PICK i \in DOMAIN pages[m] : Covers(pages[m][i], r)
      BY <1>1, <3>1 DEF ClientsInv, RegionsKept
    <3> DEFINE p == pages[m][i]
    <3>3. p \in Descriptor
      BY <1>1, <3>1, LaidOutNow DEF ClientsInv, LaidOut
    <3> HIDE DEF p
    <3>4. Start(p) \in Int /\ p.used \in Int
      BY <3>3, PagesAssumption DEF Descriptor, Start
    <3>5. r[1] \in Int /\ r[2] \in Int /\ r[1] < r[2]
      BY <3>1, RegionBounds, PagesAssumption DEF Memory
    <3>6. Start(p) <= r[1] /\ r[2] <= Start(p) + p.used
      BY <3>2 DEF Covers, p
    <3>7. p.used > 0
      BY <3>4, <3>5, <3>6
    <3>8. p \in PageInfos(m)
      BY <3>2, <3>7 DEF PageInfos, p
    <3>9. QED
      BY <3>6, <3>8
  <2>2. QED
    BY <2>1 DEF PageInfosComplete
<1>2. PagesInv /\ ClientsInv => PageInfosComplete
  BY <1>1
<1>3. QED
  BY <1>2, ClientsInvariance, PTL

(* SCOREP_Allocator_GetAddressFromMovedMemory leads every handle into a run
   that has arrived to the byte at the same offset of its copy, whatever the
   order of the run, the page size and the runs that arrived before. *)
THEOREM MovedHandles == Spec => []MovedAddresses
<1>1. ASSUME PagesInv, ClientsInv
      PROVE  MovedAddresses
  <2>1. ASSUME NEW m \in Moved, NEW r \in DOMAIN RemoteUsage, mapping[m][r] # 0
        PROVE  LET copy == AddressFromMoved(m, r * PageSize)
               IN  /\ <<copy, copy + RemoteUsage[r]>> \in inUse[m]
                   /\ \A k \in 0..RemoteUsage[r] - 1 :
                         AddressFromMoved(m, r * PageSize + k) = copy + k
    <3> DEFINE f == mapping[m]
               n == RemoteUsage[r]
               order == Order(n)
               copy == f[r] * PageSize
    <3>1. /\ r \in Nat /\ n \in Nat \ {0} /\ order \in Nat \ {0}
          /\ PageSize \in Nat \ {0} /\ n <= order * PageSize
      BY OrderPositive, OrderEnough, RequestsAssumption, PagesAssumption DEF PageIds
    <3>2. MappedRun(f, inUse[m], r) /\ f[r] # 0
      BY <1>1, <2>1 DEF ClientsInv
    <3>3. <<copy, copy + n>> \in inUse[m] /\ \A q \in RemoteRun(r) : f[q] = f[r] + (q - r)
      BY <3>2 DEF MappedRun
    <3>4. f[r] \in Nat
      <4>1. m \in Managers /\ r \in PageIds
        BY RequestsAssumption DEF Managers
      <4>2. f[r] \in PageIds
        BY <4>1, <1>1 DEF ClientsInv
      <4>3. QED
        BY <4>2, PagesAssumption DEF PageIds
    <3>5. RemoteRun(r) = r..r + order - 1
      BY DEF RemoteRun
    <3>6. ASSUME NEW k \in 0..n - 1
          PROVE  AddressFromMoved(m, r * PageSize + k) = copy + k
      <4> DEFINE a == k \div PageSize
                 b == k % PageSize
      <4>1. /\ k \in Nat /\ k < n /\ a \in Nat /\ b \in 0..PageSize - 1
            /\ k = a * PageSize + b
        <5>1. k \in Nat /\ k < n
          BY <3>1
        <5>2. QED
          BY <3>1, <5>1, Division
      <4>2. /\ (r * PageSize + k) \div PageSize = r + a
            /\ (r * PageSize + k) % PageSize = b
        BY <3>1, <4>1, DivisionShift
      <4> HIDE DEF a, b, order, n
      <4>3. a < order
        <5>1. ~(order <= a) \/ order * PageSize <= a * PageSize
          BY <3>1, <4>1, TimesMonotonic
        <5>2. a * PageSize <= k /\ k < order * PageSize
              /\ a * PageSize \in Int /\ order * PageSize \in Int
          BY <3>1, <4>1
        <5>3. ~(order * PageSize <= a * PageSize)
          BY <5>2, <4>1
        <5>4. QED
          BY <5>1, <5>3, <3>1, <4>1
      <4>4. r + a \in RemoteRun(r)
        BY <3>1, <3>5, <4>1, <4>3
      <4>5. f[r + a] = f[r] + a
        BY <3>1, <3>3, <4>1, <4>4
      <4>6. AddressFromMoved(m, r * PageSize + k) = f[r + a] * PageSize + b
        BY <4>2 DEF AddressFromMoved
      <4> HIDE DEF f
      <4>7. (f[r] + a) * PageSize = f[r] * PageSize + a * PageSize
        BY <3>1, <3>4, <4>1, TimesSum
      <4>8. f[r] * PageSize \in Int /\ a * PageSize \in Int
        BY <3>1, <3>4, <4>1
      <4>9. QED
        BY <4>1, <4>5, <4>6, <4>7, <4>8
    <3>7. AddressFromMoved(m, r * PageSize) = copy
      <4>1. 0 \in 0..n - 1 /\ r * PageSize + 0 = r * PageSize /\ copy + 0 = copy
        BY <3>1, <3>4
      <4>2. AddressFromMoved(m, r * PageSize + 0) = copy + 0
        BY <3>6, <4>1
      <4>3. QED
        BY <4>1, <4>2
    <3>8. QED
      BY <3>3, <3>6, <3>7
  <2>2. QED
    BY <2>1 DEF MovedAddresses
<1>2. PagesInv /\ ClientsInv => MovedAddresses
  BY <1>1
<1>3. QED
  BY <1>2, ClientsInvariance, PTL

-----------------------------------------------------------------------------
(* The allocator's own objects (page descriptors and page managers) and its
   counters.  An object is free, describes a page or is a manager, and every
   maintenance page provides as many as fit: Balance(a) is what must match
   the objects in use.  The lemmas say how each function run under the lock
   changes the balance, and how each operation the objects. *)

Sound(a) ==
    /\ a \in AllocatorState /\ a.maintenance \subseteq a.bitset
    /\ a.freeObjects >= 0 /\ a.highWatermark >= 0
    /\ Cardinality(a.bitset) <= a.nAllocated

Balance(a) == a.freeObjects - Cardinality(a.maintenance) * ObjectsPerPage

LEMMA PagesFinite ==
    ASSUME NEW S \in SUBSET PageIds
    PROVE  IsFiniteSet(S) /\ Cardinality(S) \in Nat
<1>1. IsFiniteSet(PageIds)
  BY FS_Interval, PagesAssumption DEF PageIds
<1>2. QED
  BY <1>1, FS_Subset, FS_CardinalityType

(* track_bitset_find_and_set[_range]: the counters rise by the length asked
   for, the bitset by no more. *)
LEMMA TakePagesSound ==
    ASSUME NEW a, Sound(a), NEW id \in 0..Capacity, NEW length \in Nat \ {0},
           id # Capacity => Run(id, length) \subseteq PageIds
    PROVE  /\ Sound(TakePages(a, id, length))
           /\ TakePages(a, id, length).freeObjects = a.freeObjects
           /\ Balance(TakePages(a, id, length)) = Balance(a)
<1> DEFINE b == TakePages(a, id, length)
           n == a.nAllocated + length
<1>1. /\ b \in AllocatorState /\ b.maintenance = a.maintenance
      /\ b.bitset = IF id = Capacity THEN a.bitset ELSE a.bitset \cup Run(id, length)
  BY TakePagesFacts DEF Sound
<1>2. /\ a.freeObjects \in Int /\ a.nAllocated \in Int /\ a.highWatermark \in Int
      /\ a.bitset \in SUBSET PageIds
  BY DEF Sound, AllocatorState
<1>3. /\ b.freeObjects = a.freeObjects /\ b.nAllocated = n
      /\ b.highWatermark = IF n > a.highWatermark THEN n ELSE a.highWatermark
  BY DEF TakePages, Sound, AllocatorState
<1> HIDE DEF b
<1>4. b.highWatermark >= 0
  BY <1>2, <1>3 DEF Sound
<1>5. Cardinality(b.bitset) <= b.nAllocated
  <2>1. CASE id = Capacity
    <3>1. b.bitset = a.bitset /\ Cardinality(a.bitset) \in Nat
      BY <2>1, <1>1, <1>2, PagesFinite
    <3>2. QED
      BY <3>1, <1>2, <1>3 DEF Sound
  <2>2. CASE id # Capacity
    <3>1. id \in Int /\ id + length - 1 \in Int /\ Run(id, length) = id..id + length - 1
      BY PagesAssumption DEF Run
    <3>2. Cardinality(Run(id, length)) = length /\ IsFiniteSet(Run(id, length))
      <4> DEFINE last == id + length - 1
      <4>1. IsFiniteSet(id..last)
            /\ Cardinality(id..last) = IF id > last THEN 0 ELSE last - id + 1
        BY <3>1, FS_Interval
      <4>2. id <= last /\ last - id + 1 = length
        BY <3>1
      <4>3. QED
        BY <3>1, <4>1, <4>2
    <3>3. IsFiniteSet(a.bitset) /\ Cardinality(a.bitset) \in Nat
      BY <1>2, PagesFinite
    <3>4. Cardinality(a.bitset \cup Run(id, length)) <= Cardinality(a.bitset) + length
      <4>1. Cardinality(a.bitset \cup Run(id, length))
            = Cardinality(a.bitset) + Cardinality(Run(id, length))
              - Cardinality(a.bitset \cap Run(id, length))
        BY <3>2, <3>3, FS_Union
      <4>2. Cardinality(a.bitset \cap Run(id, length)) \in Nat
        BY <3>3, FS_Intersection, FS_CardinalityType
      <4>3. QED
        BY <4>1, <4>2, <3>2, <3>3
    <3>5. Cardinality(a.bitset \cup Run(id, length)) \in Nat
      BY <3>2, <3>3, FS_Union, FS_CardinalityType
    <3>6. b.bitset = a.bitset \cup Run(id, length)
      BY <2>2, <1>1
    <3>7. QED
      BY <3>3, <3>4, <3>5, <3>6, <1>2, <1>3 DEF Sound
  <2>3. QED
    BY <2>1, <2>2
<1>6. b.maintenance \subseteq b.bitset
  BY <1>1 DEF Sound
<1>7. Sound(b) /\ Balance(b) = Balance(a)
  BY <1>1, <1>3, <1>4, <1>5, <1>6 DEF Sound, Balance
<1>8. QED
  BY <1>3, <1>7 DEF b

(* get_union_object: one object less, free or of the maintenance page that it
   made, or none if it failed. *)
LEMMA GetObjectSound ==
    ASSUME NEW a, Sound(a)
    PROVE  /\ Sound(GetObject(a).a)
           /\ Balance(GetObject(a).a) =
                 Balance(a) - (IF GetObject(a).ok THEN 1 ELSE 0)
<1> DEFINE id == FindRange(a, 1)
           b == TakePages(a, id, 1)
           g == GetObject(a)
<1>1. /\ id \in 0..Capacity
      /\ id # Capacity => Run(id, 1) \subseteq PageIds /\ Run(id, 1) \cap a.bitset = {}
  BY FindRangeFacts DEF Sound
<1>2. Run(id, 1) = {id}
  BY <1>1 DEF Run
<1>3. Sound(b) /\ b.freeObjects = a.freeObjects /\ Balance(b) = Balance(a)
  <2> HIDE DEF id
  <2> QED BY <1>1, TakePagesSound
<1>4. a \in AllocatorState /\ a.freeObjects \in Int /\ a.freeObjects >= 0
  BY DEF Sound, AllocatorState
<1>5. b.maintenance = a.maintenance /\ b.bitset = IF id = Capacity THEN a.bitset ELSE a.bitset \cup {id}
  <2> HIDE DEF id
  <2> QED BY <1>1, <1>2, <1>4, TakePagesFacts
<1>6. Cardinality(a.maintenance) \in Nat /\ IsFiniteSet(a.maintenance)
      /\ ObjectsPerPage \in Nat \ {0}
  BY <1>4, PagesFinite, PagesAssumption DEF AllocatorState
<1>7. CASE a.freeObjects > 0
  <2> DEFINE c == [a EXCEPT !.freeObjects = @ - 1]
  <2>1. g.ok = TRUE /\ g.a = c
    BY <1>7 DEF GetObject
  <2>2. /\ c \in AllocatorState /\ c.freeObjects = a.freeObjects - 1
        /\ c.maintenance = a.maintenance /\ c.bitset = a.bitset
        /\ c.nAllocated = a.nAllocated /\ c.highWatermark = a.highWatermark
    BY <1>4 DEF AllocatorState
  <2> HIDE DEF c, g
  <2>3. Sound(c)
    BY <2>2, <1>4, <1>7 DEF Sound
  <2>4. Balance(c) = Balance(a) - 1
    BY <2>2, <1>4, <1>6 DEF Balance
  <2>5. QED
    BY <2>1, <2>3, <2>4 DEF g
<1>8. CASE ~(a.freeObjects > 0) /\ id = Capacity
  <2>1. g.ok = FALSE /\ g.a = b
    BY <1>8 DEF GetObject
  <2>2. Balance(a) \in Int
    BY <1>4, <1>6 DEF Balance
  <2> HIDE DEF b
  <2>3. QED
    BY <2>1, <2>2, <1>3
<1>9. CASE ~(a.freeObjects > 0) /\ id # Capacity
  <2> DEFINE c == [b EXCEPT !.maintenance = @ \cup {id},
                            !.freeObjects = ObjectsPerPage - 1]
  <2>1. g.ok = TRUE /\ g.a = c
    BY <1>9 DEF GetObject
  <2>2. id \in PageIds /\ id \notin a.maintenance
    BY <1>1, <1>2, <1>9 DEF Sound
  <2> HIDE DEF id, b, g
  <2>3. b \in AllocatorState
    BY <1>3 DEF Sound
  <2>4. /\ c \in AllocatorState /\ c.freeObjects = ObjectsPerPage - 1
        /\ c.maintenance = a.maintenance \cup {id} /\ c.bitset = b.bitset
        /\ c.nAllocated = b.nAllocated /\ c.highWatermark = b.highWatermark
    <3> DEFINE X == b.maintenance \cup {id}
               Y == ObjectsPerPage - 1
    <3>1. c = [b EXCEPT !.maintenance = X, !.freeObjects = Y]
      BY <2>3 DEF AllocatorState
    <3>2. X \in SUBSET PageIds /\ Y \in Int /\ X = a.maintenance \cup {id}
      BY <2>2, <2>3, <1>5, <1>6 DEF AllocatorState
    <3> HIDE DEF X, Y, c
    <3>3. /\ c \in AllocatorState /\ c.freeObjects = Y /\ c.maintenance = X
          /\ c.bitset = b.bitset /\ c.nAllocated = b.nAllocated
          /\ c.highWatermark = b.highWatermark
      BY <2>3, <3>1, <3>2 DEF AllocatorState
    <3>4. QED
      BY <3>2, <3>3 DEF Y
  <2>5. id \in b.bitset /\ b.maintenance \subseteq b.bitset
    BY <1>3, <1>5, <1>9 DEF Sound
  <2> HIDE DEF c
  <2>6. Sound(c)
    BY <2>4, <2>5, <1>3, <1>5, <1>6 DEF Sound
  <2>7. Cardinality(c.maintenance) = Cardinality(a.maintenance) + 1
    BY <2>2, <2>4, <1>6, FS_AddElement
  <2>8. Balance(c) = Balance(a) - 1
    <3> DEFINE k == Cardinality(a.maintenance)
    <3>1. k \in Nat /\ (k + 1) * ObjectsPerPage = k * ObjectsPerPage + 1 * ObjectsPerPage
      BY <1>6, TimesSum
    <3>2. a.freeObjects = 0
      BY <1>4, <1>9
    <3>3. Balance(c) = (ObjectsPerPage - 1) - (k + 1) * ObjectsPerPage
      BY <2>4, <2>7 DEF Balance
    <3>4. Balance(a) = 0 - k * ObjectsPerPage
      BY <3>2 DEF Balance
    <3> HIDE DEF k
    <3>5. QED
      BY <3>1, <3>3, <3>4, <1>6
  <2>9. QED
    BY <2>1, <2>6, <2>8 DEF g
<1>10. QED
  BY <1>7, <1>8, <1>9

(* put_union_object: one free object more. *)
LEMMA PutObjectSound ==
    ASSUME NEW a, Sound(a)
    PROVE  /\ Sound(PutObject(a))
           /\ Balance(PutObject(a)) = Balance(a) + 1
<1> DEFINE c == PutObject(a)
<1>1. a \in AllocatorState /\ a.freeObjects \in Int /\ a.freeObjects >= 0
  BY DEF Sound, AllocatorState
<1>2. /\ c \in AllocatorState /\ c.freeObjects = a.freeObjects + 1
      /\ c.maintenance = a.maintenance /\ c.bitset = a.bitset
      /\ c.nAllocated = a.nAllocated /\ c.highWatermark = a.highWatermark
  BY <1>1 DEF AllocatorState, PutObject
<1>3. Cardinality(a.maintenance) \in Nat /\ ObjectsPerPage \in Nat
  BY <1>1, PagesFinite, PagesAssumption DEF AllocatorState
<1> HIDE DEF c
<1>4. Sound(c)
  BY <1>1, <1>2 DEF Sound
<1>5. Balance(c) = Balance(a) + 1
  BY <1>1, <1>2, <1>3 DEF Balance
<1>6. QED
  BY <1>4, <1>5 DEF c

(* get_page: one object less if it succeeds, none if it fails. *)
LEMMA GetPageSound ==
    ASSUME NEW a, Sound(a), NEW order \in Nat \ {0}
    PROVE  /\ Sound(GetPage(a, order).a)
           /\ Balance(GetPage(a, order).a) =
                 Balance(a) - (IF GetPage(a, order).ok THEN 1 ELSE 0)
<1> DEFINE o == GetObject(a)
           id == FindRange(o.a, order)
           b == TakePages(o.a, id, order)
           g == GetPage(a, order)
<1>1. Sound(o.a) /\ Balance(o.a) = Balance(a) - (IF o.ok THEN 1 ELSE 0)
  BY GetObjectSound
<1>2. o.a \in AllocatorState /\ o.ok \in BOOLEAN
  BY <1>1 DEF Sound, GetObject
<1>3. /\ id \in 0..Capacity
      /\ id # Capacity => Run(id, order) \subseteq PageIds
  <2> HIDE DEF o
  <2> QED BY <1>2, FindRangeFacts
<1>4. Sound(b) /\ Balance(b) = Balance(o.a)
  <2> HIDE DEF o, id
  <2> QED BY <1>1, <1>3, TakePagesSound
<1>5. Balance(a) \in Int
  <2>1. a \in AllocatorState
    BY DEF Sound
  <2>2. Cardinality(a.maintenance) \in Nat /\ ObjectsPerPage \in Nat /\ a.freeObjects \in Int
    BY <2>1, PagesFinite, PagesAssumption DEF AllocatorState
  <2>3. QED
    BY <2>2 DEF Balance
<1>6. CASE ~o.ok
  <2>1. g.ok = FALSE /\ g.a = o.a
    BY <1>6 DEF GetPage
  <2> HIDE DEF o, g
  <2>2. QED
    BY <2>1, <1>1, <1>6 DEF g
<1>7. CASE o.ok /\ id = Capacity
  <2>1. g.ok = FALSE /\ g.a = PutObject(b)
    BY <1>7 DEF GetPage
  <2> HIDE DEF o, g, b, id
  <2>2. Sound(PutObject(b)) /\ Balance(PutObject(b)) = Balance(b) + 1
    BY <1>4, PutObjectSound
  <2>3. Balance(g.a) = Balance(a) - 0
    BY <2>1, <2>2, <1>1, <1>4, <1>5, <1>7
  <2>4. QED
    BY <2>1, <2>2, <2>3 DEF g
<1>8. CASE o.ok /\ id # Capacity
  <2>1. g.ok = TRUE /\ g.a = b
    BY <1>8 DEF GetPage
  <2> HIDE DEF o, g, b, id
  <2>2. QED
    BY <2>1, <1>1, <1>4, <1>8 DEF g
<1>9. QED
  BY <1>2, <1>6, <1>7, <1>8

(* put_page for every page of a list of pages in use that are not the
   allocator's own: as many free objects more. *)
LEMMA PutPagesSound ==
    ASSUME NEW a, Sound(a), NEW list \in Seq(Descriptor),
           Spans(list) \subseteq a.bitset, Spans(list) \cap a.maintenance = {}
    PROVE  /\ Sound(PutPages(a, list))
           /\ Balance(PutPages(a, list)) = Balance(a) + Len(list)
<1> DEFINE c == PutPages(a, list)
           back == Spans(list)
<1>1. /\ a \in AllocatorState /\ a.freeObjects \in Int /\ a.nAllocated \in Int
      /\ a.bitset \in SUBSET PageIds
  BY DEF Sound, AllocatorState
<1>2. /\ c \in AllocatorState /\ c.bitset = a.bitset \ back
      /\ c.maintenance = a.maintenance
  BY <1>1, PutPagesFacts
<1>3. /\ c.nAllocated = a.nAllocated - Cardinality(back)
      /\ c.freeObjects = a.freeObjects + Len(list)
      /\ c.highWatermark = a.highWatermark
  BY <1>1 DEF AllocatorState, PutPages, Spans
<1>4. Len(list) \in Nat
  BY LenProperties
<1>5. /\ IsFiniteSet(a.bitset) /\ IsFiniteSet(back) /\ Cardinality(a.bitset) \in Nat
      /\ Cardinality(back) \in Nat
  BY <1>1, PagesFinite
<1> HIDE DEF c, back
<1>6. Cardinality(c.bitset) = Cardinality(a.bitset) - Cardinality(back)
  <2>1. a.bitset \cap back = back
    BY DEF back
  <2>2. Cardinality(a.bitset \ back) = Cardinality(a.bitset) - Cardinality(a.bitset \cap back)
    BY <1>5, FS_Difference
  <2>3. QED
    BY <2>1, <2>2, <1>2
<1>7. Sound(c)
  BY <1>1, <1>2, <1>3, <1>4, <1>5, <1>6 DEF Sound, back
<1>8. Cardinality(a.maintenance) \in Nat /\ ObjectsPerPage \in Nat
  BY <1>1, PagesFinite, PagesAssumption DEF AllocatorState
<1>9. Balance(c) = Balance(a) + Len(list)
  BY <1>1, <1>2, <1>3, <1>4, <1>8 DEF Balance
<1>10. QED
  BY <1>7, <1>9 DEF c

-----------------------------------------------------------------------------
(* The objects in use *)

Pairs(O) == UNION {{m} \X DOMAIN O[m] : m \in Managers}

(* One manager's list becomes longer or shorter. *)
LEMMA PairsChange ==
    ASSUME NEW O \in Lists, NEW m \in Managers, NEW list \in Seq(Descriptor),
           IsFiniteSet(Pairs(O)),
           NEW Q, Q = [O EXCEPT ![m] = list]
    PROVE  /\ IsFiniteSet(Pairs(Q)) /\ Cardinality(Pairs(O)) \in Nat
           /\ Cardinality(Pairs(Q)) = Cardinality(Pairs(O)) - Len(O[m]) + Len(list)
<1> DEFINE mine == {m} \X DOMAIN O[m]
           new == {m} \X DOMAIN list
           rest == UNION {{n} \X DOMAIN O[n] : n \in Managers \ {m}}
<1>1. /\ Len(O[m]) \in Nat /\ DOMAIN O[m] = 1..Len(O[m])
      /\ Len(list) \in Nat /\ DOMAIN list = 1..Len(list)
  BY LenProperties DEF Lists
<1>2. ASSUME NEW n \in Nat
      PROVE  IsFiniteSet({m} \X (1..n)) /\ Cardinality({m} \X (1..n)) = n
  <2>1. IsFiniteSet({m}) /\ Cardinality({m}) = 1
    BY FS_Singleton
  <2>2. IsFiniteSet(1..n) /\ Cardinality(1..n) = n
    <3>1. IsFiniteSet(1..n) /\ Cardinality(1..n) = IF 1 > n THEN 0 ELSE n - 1 + 1
      BY FS_Interval
    <3>2. QED
      BY <3>1
  <2>3. /\ IsFiniteSet({m} \X (1..n))
        /\ Cardinality({m} \X (1..n)) = Cardinality({m}) * Cardinality(1..n)
    BY <2>1, <2>2, FS_Product
  <2>4. QED
    BY <2>1, <2>2, <2>3
<1>3. /\ IsFiniteSet(mine) /\ Cardinality(mine) = Len(O[m])
      /\ IsFiniteSet(new) /\ Cardinality(new) = Len(list)
  BY <1>1, <1>2
<1>4. Pairs(O) = rest \cup mine
  BY DEF Pairs
<1>5. Pairs(Q) = rest \cup new
  <2>1. Q[m] = list /\ \A n \in Managers \ {m} : Q[n] = O[n]
    BY DEF Lists
  <2>2. QED
    BY <2>1 DEF Pairs
<1>6. rest \cap mine = {} /\ rest \cap new = {}
  OBVIOUS
<1> HIDE DEF mine, new, rest
<1>7. IsFiniteSet(rest) /\ Cardinality(rest) \in Nat
  BY <1>4, FS_Subset, FS_CardinalityType
<1>8. ASSUME NEW S, IsFiniteSet(S), rest \cap S = {}
      PROVE  IsFiniteSet(rest \cup S) /\ Cardinality(rest \cup S) = Cardinality(rest) + Cardinality(S)
  <2>1. /\ IsFiniteSet(rest \cup S)
        /\ Cardinality(rest \cup S) = Cardinality(rest) + Cardinality(S) - Cardinality(rest \cap S)
    BY <1>7, <1>8, FS_Union
  <2>2. Cardinality(rest \cap S) = 0
    BY <1>8, FS_EmptySet
  <2>3. Cardinality(S) \in Nat
    BY <1>8, FS_CardinalityType
  <2>4. QED
    BY <2>1, <2>2, <2>3, <1>7
<1>9. Cardinality(Pairs(O)) = Cardinality(rest) + Len(O[m])
  BY <1>3, <1>4, <1>6, <1>8
<1>10. IsFiniteSet(Pairs(Q)) /\ Cardinality(Pairs(Q)) = Cardinality(rest) + Len(list)
  BY <1>3, <1>5, <1>6, <1>8
<1>11. QED
  BY <1>1, <1>7, <1>9, <1>10

-----------------------------------------------------------------------------
(* The inductive invariant: an object is free, describes an owned page or is
   a manager.  Managers and their lists are counted apart from the allocator. *)

Counts(a, O, S) ==
    /\ IsFiniteSet(Pairs(O)) /\ IsFiniteSet(S)
    /\ Balance(a) + Cardinality(Pairs(O)) + Cardinality(S)
          = FirstObjects - MaintPages * ObjectsPerPage

ObjectsInv ==
    /\ Sound(allocator)
    /\ Counts(allocator, OwnedLists, Made)
    /\ \A m \in Managers : \A i \in DOMAIN mappingPage[m] : mappingPage[m][i].used = 0

(* Balances are numbers. *)
LEMMA BalanceType ==
    ASSUME NEW a, Sound(a)
    PROVE  /\ Balance(a) \in Int /\ Cardinality(a.maintenance) \in Nat
           /\ Balance(a) = a.freeObjects - Cardinality(a.maintenance) * ObjectsPerPage
<1>1. Cardinality(a.maintenance) \in Nat /\ a.freeObjects \in Int
  BY PagesFinite DEF Sound, AllocatorState
<1>2. QED
  BY <1>1, PagesAssumption DEF Balance

(* Counting them so is what ObjectsConserved says. *)
LEMMA CountsAreConserved ==
    ASSUME ObjectsInv
    PROVE  CountersInv
<1>1. Descriptors = Pairs(OwnedLists)
  BY DEF Descriptors, Pairs, OwnedLists
<1> DEFINE k == Cardinality(allocator.maintenance)
           d == Cardinality(Descriptors)
           s == Cardinality(Made)
<1>2. /\ IsFiniteSet(Descriptors) /\ IsFiniteSet(Made)
      /\ Balance(allocator) + d + s = FirstObjects - MaintPages * ObjectsPerPage
  BY <1>1 DEF ObjectsInv, Counts
<1>3. k \in Nat /\ Balance(allocator) = allocator.freeObjects - k * ObjectsPerPage
  BY BalanceType DEF ObjectsInv
<1>4. d \in Nat /\ s \in Nat
  BY <1>2, FS_CardinalityType
<1>5. allocator.freeObjects \in Int
  BY DEF ObjectsInv, Sound, AllocatorState
<1>6. FirstObjects \in Nat /\ MaintPages \in Nat /\ ObjectsPerPage \in Nat
  BY PagesAssumption
<1>7. ObjectsConserved
  <2>1. k = (k - MaintPages) + MaintPages /\ k - MaintPages \in Int
    BY <1>3, <1>6
  <2>2. ((k - MaintPages) + MaintPages) * ObjectsPerPage
        = (k - MaintPages) * ObjectsPerPage + MaintPages * ObjectsPerPage
    BY <2>1, <1>6, TimesSum
  <2> HIDE DEF k, d, s
  <2>3. k * ObjectsPerPage = (k - MaintPages) * ObjectsPerPage + MaintPages * ObjectsPerPage
    BY <2>1, <2>2
  <2>4. (k - MaintPages) * ObjectsPerPage \in Int /\ MaintPages * ObjectsPerPage \in Int
        /\ k * ObjectsPerPage \in Int
    BY <2>1, <1>3, <1>6
  <2>5. allocator.freeObjects + d + s = FirstObjects + (k - MaintPages) * ObjectsPerPage
    BY <2>3, <2>4, <1>2, <1>3, <1>4, <1>5, <1>6
  <2>6. QED
    BY <2>5 DEF ObjectsConserved, k, d, s
<1>8. QED
  BY <1>2, <1>7 DEF ObjectsInv, Sound, CountersInv

(* A manager comes, goes or stays. *)
LEMMA MadeChange ==
    ASSUME PagesInv, IsFiniteSet(Made), NEW m \in Managers,
           NEW x, stage' = [stage EXCEPT ![m] = x],
           NEW j, j = (IF x = "absent" THEN 0 ELSE 1) - (IF stage[m] = "absent" THEN 0 ELSE 1)
    PROVE  IsFiniteSet(Made') /\ Cardinality(Made') = Cardinality(Made) + j
<1>1. Cardinality(Made) \in Nat
  BY FS_CardinalityType
<1>2. stage'[m] = x /\ \A n \in Managers \ {m} : stage'[n] = stage[n]
  BY DEF PagesInv
<1>3. m \in Made <=> stage[m] # "absent"
  BY DEF Made
<1>4. Made' = IF x = "absent" THEN Made \ {m} ELSE Made \cup {m}
  BY <1>2 DEF Made
<1>5. CASE x = "absent"
  <2>1. Made' = Made \ {m} /\ j = IF m \in Made THEN -1 ELSE 0
    BY <1>3, <1>4, <1>5
  <2>2. IsFiniteSet(Made \ {m})
        /\ Cardinality(Made \ {m}) = IF m \in Made THEN Cardinality(Made) - 1 ELSE Cardinality(Made)
    BY FS_RemoveElement
  <2>3. QED
    BY <2>1, <2>2, <1>1
<1>6. CASE x # "absent"
  <2>1. Made' = Made \cup {m} /\ j = IF m \in Made THEN 0 ELSE 1
    BY <1>3, <1>4, <1>6
  <2>2. IsFiniteSet(Made \cup {m})
        /\ Cardinality(Made \cup {m}) = IF m \in Made THEN Cardinality(Made) ELSE Cardinality(Made) + 1
    BY FS_AddElement
  <2>3. QED
    BY <2>1, <2>2, <1>1
<1>7. QED
  BY <1>5, <1>6

(* What all operations have in common: objects leave the balance for one
   manager's lists or for the managers, or come back. *)
LEMMA ObjectsStep ==
    ASSUME PagesInv, PagesInv', ObjectsInv, NEW m \in Managers,
           NEW k \in Int, NEW j \in Int,
           Sound(allocator'), Balance(allocator') = Balance(allocator) + k,
           \A n \in Managers \ {m} : pages'[n] = pages[n] /\ mappingPage'[n] = mappingPage[n],
           IsFiniteSet(Made'), Cardinality(Made') = Cardinality(Made) + j,
           Len(pages'[m]) + Len(mappingPage'[m])
              = Len(pages[m]) + Len(mappingPage[m]) - k - j,
           \A i \in DOMAIN mappingPage'[m] : mappingPage'[m][i].used = 0
    PROVE  ObjectsInv'
<1> DEFINE list == pages'[m] \o mappingPage'[m]
<1>1. /\ pages[m] \in Seq(Descriptor) /\ mappingPage[m] \in Seq(Descriptor)
      /\ pages'[m] \in Seq(Descriptor) /\ mappingPage'[m] \in Seq(Descriptor)
      /\ OwnedLists \in Lists
  BY OwnedListsType DEF PagesInv, Lists
<1>2. /\ OwnedLists[m] = pages[m] \o mappingPage[m]
      /\ OwnedLists' = [OwnedLists EXCEPT ![m] = list]
  BY DEF OwnedLists, Owned
<1>3. /\ list \in Seq(Descriptor)
      /\ Len(list) = Len(pages'[m]) + Len(mappingPage'[m])
      /\ Len(OwnedLists[m]) = Len(pages[m]) + Len(mappingPage[m])
  BY <1>1, <1>2, ConcatProperties
<1>4. Len(OwnedLists[m]) \in Nat /\ Len(list) = Len(OwnedLists[m]) - k - j
  <2>1. /\ Len(pages[m]) \in Nat /\ Len(mappingPage[m]) \in Nat
        /\ Len(pages'[m]) \in Nat /\ Len(mappingPage'[m]) \in Nat
    BY <1>1, LenProperties
  <2>2. Len(pages'[m]) + Len(mappingPage'[m]) = Len(pages[m]) + Len(mappingPage[m]) - k - j
    OBVIOUS
  <2> HIDE DEF list
  <2> DEFINE before == Len(OwnedLists[m])
             after == Len(list)
             a == Len(pages[m])
             b == Len(mappingPage[m])
             c == Len(pages'[m])
             d == Len(mappingPage'[m])
  <2>3. before = a + b /\ after = c + d
    BY <1>3
  <2>4. a \in Nat /\ b \in Nat /\ c \in Nat /\ d \in Nat /\ c + d = a + b - k - j
    BY <2>1, <2>2
  <2> HIDE DEF a, b, c, d, before, after
  <2>5. before \in Nat /\ after = before - k - j
    BY <2>3, <2>4
  <2>6. QED
    BY <2>5 DEF before, after
<1> HIDE DEF list
<1>5. IsFiniteSet(Pairs(OwnedLists)) /\ IsFiniteSet(Made)
  BY DEF ObjectsInv, Counts
<1>6. /\ IsFiniteSet(Pairs(OwnedLists')) /\ Cardinality(Pairs(OwnedLists)) \in Nat
      /\ Cardinality(Pairs(OwnedLists'))
            = Cardinality(Pairs(OwnedLists)) - Len(OwnedLists[m]) + Len(list)
  BY <1>1, <1>2, <1>3, <1>5, PairsChange
<1>7. Cardinality(Made) \in Nat /\ Balance(allocator) \in Int
  BY <1>5, FS_CardinalityType, BalanceType DEF ObjectsInv
<1>8. Balance(allocator') + Cardinality(Pairs(OwnedLists')) + Cardinality(Made')
      = Balance(allocator) + Cardinality(Pairs(OwnedLists)) + Cardinality(Made)
  <2>1. Balance(allocator') = Balance(allocator) + k /\ Cardinality(Made') = Cardinality(Made) + j
    OBVIOUS
  <2>2. Cardinality(Pairs(OwnedLists')) = Cardinality(Pairs(OwnedLists)) - k - j
    BY <1>4, <1>6
  <2>3. QED
    BY <2>1, <2>2, <1>6, <1>7
<1>9. Counts(allocator', OwnedLists', Made')
  BY <1>6, <1>8 DEF ObjectsInv, Counts
<1>10. \A n \in Managers : \A i \in DOMAIN mappingPage'[n] : mappingPage'[n][i].used = 0
  BY DEF ObjectsInv
<1>11. QED
  BY <1>9, <1>10 DEF ObjectsInv

-----------------------------------------------------------------------------
(* One lemma per operation *)

(* get_page_manager: the object becomes a manager. *)
LEMMA CreateObjectCounted ==
    ASSUME PagesInv, PagesInv', ObjectsInv, NEW m \in Managers, CreateObject(m)
    PROVE  ObjectsInv'
<1> DEFINE g == GetObject(allocator)
           j == IF g.ok THEN 1 ELSE 0
           x == IF g.ok THEN "object" ELSE "absent"
<1>1. /\ stage[m] = "absent" /\ allocator' = g.a /\ stage' = [stage EXCEPT ![m] = x]
      /\ pages' = pages /\ mappingPage' = mappingPage
  BY DEF CreateObject
<1>2. Sound(g.a) /\ Balance(g.a) = Balance(allocator) - j
  BY GetObjectSound DEF ObjectsInv
<1>3. j \in Int /\ -j \in Int /\ Balance(allocator) \in Int
  BY BalanceType DEF ObjectsInv
<1>4. Balance(g.a) = Balance(allocator) + (-j)
  <2> HIDE DEF g, j
  <2> QED BY <1>2, <1>3
<1>6. IsFiniteSet(Made') /\ Cardinality(Made') = Cardinality(Made) + j
  <2>1. IsFiniteSet(Made)
    BY DEF ObjectsInv, Counts
  <2> HIDE DEF g
  <2>2. CASE g.ok
    <3>1. stage' = [stage EXCEPT ![m] = "object"] /\ j = 1
      BY <2>2, <1>1
    <3> HIDE DEF j, x
    <3>2. 1 = (IF "object" = "absent" THEN 0 ELSE 1) - (IF stage[m] = "absent" THEN 0 ELSE 1)
      BY <1>1
    <3>3. QED
      BY <2>1, <3>1, <3>2, MadeChange
  <2>3. CASE ~g.ok
    <3>1. stage' = [stage EXCEPT ![m] = "absent"] /\ j = 0
      BY <2>3, <1>1
    <3> HIDE DEF j, x
    <3>2. 0 = (IF "absent" = "absent" THEN 0 ELSE 1) - (IF stage[m] = "absent" THEN 0 ELSE 1)
      BY <1>1
    <3>3. QED
      BY <2>1, <3>1, <3>2, MadeChange
  <2>4. QED
    BY <2>2, <2>3
<1> HIDE DEF g, j, x
<1>7. Len(pages'[m]) + Len(mappingPage'[m])
      = Len(pages[m]) + Len(mappingPage[m]) - (-j) - j
  <2> DEFINE a == Len(pages[m])
             b == Len(mappingPage[m])
  <2>1. a \in Nat /\ b \in Nat
    BY LenProperties DEF PagesInv, Lists
  <2>2. Len(pages'[m]) = a /\ Len(mappingPage'[m]) = b
    BY <1>1
  <2> HIDE DEF a, b
  <2>3. a + b = a + b - (-j) - j
    BY <2>1, <1>3
  <2>4. QED
    BY <2>2, <2>3 DEF a, b
<1>8. \A i \in DOMAIN mappingPage'[m] : mappingPage'[m][i].used = 0
  BY <1>1 DEF ObjectsInv
<1>9. QED
  BY <1>1, <1>2, <1>3, <1>4, <1>6, <1>7, <1>8, ObjectsStep

(* What get_page returns is one descriptor or none. *)
LEMMA GotPageLen ==
    ASSUME NEW a, NEW g, GotPage(a, g)
    PROVE  Len(g.page) = IF g.ok THEN 1 ELSE 0
<1>1. CASE g.ok
  <2>1. PICK p \in Descriptor : g.page = <<p>>
    BY <1>1 DEF GotPage
  <2>2. QED
    BY <1>1, <2>1
<1>2. CASE ~g.ok
  <2>1. g.page = <<>>
    BY <1>2 DEF GotPage
  <2>2. QED
    BY <1>2, <2>1
<1>3. QED
  BY <1>1, <1>2

(* SCOREP_Allocator_CreatePageManager: a descriptor, or none. *)
LEMMA CreatePageCounted ==
    ASSUME PagesInv, PagesInv', ObjectsInv, NEW m \in Managers, CreatePage(m)
    PROVE  ObjectsInv'
<1> DEFINE g == GetPage(allocator, Order(PageSize))
           k == IF g.ok THEN 1 ELSE 0
<1>1. /\ stage[m] = "object" /\ allocator' = g.a /\ stage' = [stage EXCEPT ![m] = "ready"]
      /\ pages' = [pages EXCEPT ![m] = g.page] /\ mappingPage' = mappingPage
  BY DEF CreatePage
<1>2. Order(PageSize) \in Nat \ {0}
  BY OrderPositive, PagesAssumption
<1>3. Sound(g.a) /\ Balance(g.a) = Balance(allocator) - k
  BY <1>2, GetPageSound DEF ObjectsInv
<1>4. k \in Int /\ -k \in Int /\ Balance(allocator) \in Int
  BY BalanceType DEF ObjectsInv
<1>5. GotPage(allocator, g)
  BY <1>2, GetPageFacts DEF PagesInv
<1> HIDE DEF g
<1>6. Len(g.page) = k
  BY <1>5, GotPageLen
<1> HIDE DEF k
<1>7. Balance(g.a) = Balance(allocator) + (-k)
  BY <1>3, <1>4
<1>8. IsFiniteSet(Made') /\ Cardinality(Made') = Cardinality(Made) + 0
  <2>1. 0 = (IF "ready" = "absent" THEN 0 ELSE 1) - (IF stage[m] = "absent" THEN 0 ELSE 1)
    BY <1>1
  <2>2. QED
    BY <1>1, <2>1, MadeChange DEF ObjectsInv, Counts
<1>9. /\ pages'[m] = g.page /\ \A n \in Managers \ {m} : pages'[n] = pages[n]
      /\ pages[m] = <<>> /\ Len(<<>>) = 0
  BY <1>1 DEF PagesInv, Lists
<1>10. Len(pages'[m]) + Len(mappingPage'[m])
       = Len(pages[m]) + Len(mappingPage[m]) - (-k) - 0
  <2> DEFINE b == Len(mappingPage[m])
  <2>1. b \in Nat
    BY LenProperties DEF PagesInv, Lists
  <2>2. Len(pages'[m]) = k /\ Len(mappingPage'[m]) = b /\ Len(pages[m]) = 0
    BY <1>1, <1>6, <1>9
  <2> HIDE DEF b
  <2>3. k + b = 0 + b - (-k) - 0
    BY <2>1, <1>4
  <2>4. QED
    BY <2>2, <2>3 DEF b
<1>11. \A i \in DOMAIN mappingPage'[m] : mappingPage'[m][i].used = 0
  BY <1>1 DEF ObjectsInv
<1>12. 0 \in Int /\ Sound(allocator') /\ Balance(allocator') = Balance(allocator) + (-k)
  BY <1>1, <1>3, <1>7
<1>13. \A n \in Managers \ {m} : pages'[n] = pages[n] /\ mappingPage'[n] = mappingPage[n]
  BY <1>1, <1>9
<1>14. QED
  BY <1>4, <1>8, <1>10, <1>11, <1>12, <1>13, ObjectsStep

(* SCOREP_Allocator_CreateMovedPageManager: a descriptor for the mapping, or
   the manager's object comes back. *)
LEMMA CreateMappingCounted ==
    ASSUME PagesInv, PagesInv', ObjectsInv, NEW m \in Managers, CreateMapping(m)
    PROVE  ObjectsInv'
<1> DEFINE g == GetPage(allocator, MappingOrder)
           k == IF g.ok THEN -1 ELSE 1
           j == IF g.ok THEN 0 ELSE -1
           x == IF g.ok THEN "ready" ELSE "absent"
<1>1. /\ stage[m] = "object" /\ stage' = [stage EXCEPT ![m] = x]
      /\ allocator' = IF g.ok THEN g.a ELSE PutObject(g.a)
      /\ pages' = pages /\ mappingPage' = [mappingPage EXCEPT ![m] = g.page]
  BY DEF CreateMapping
<1>2. MappingOrder \in Nat \ {0}
  BY PagesAssumption
<1>3. Sound(g.a) /\ Balance(g.a) = Balance(allocator) - (IF g.ok THEN 1 ELSE 0)
  BY <1>2, GetPageSound DEF ObjectsInv
<1>4. Balance(allocator) \in Int
  BY BalanceType DEF ObjectsInv
<1>5. GotPage(allocator, g)
  BY <1>2, GetPageFacts DEF PagesInv
<1>6. \A i \in DOMAIN g.page : g.page[i].used = 0
  <2>1. CASE g.ok
    <3>1. PICK id : g.page = <<[id |-> id, order |-> MappingOrder, used |-> 0]>>
      BY <2>1, NewPage
    <3> HIDE DEF g
    <3>2. QED
      BY <3>1
  <2>2. CASE ~g.ok
    <3> HIDE DEF g
    <3>1. g.page = <<>>
      BY <2>2, <1>5 DEF GotPage
    <3>2. QED
      BY <3>1
  <2>3. QED
    BY <2>1, <2>2
<1> HIDE DEF g
<1>7. Len(g.page) = IF g.ok THEN 1 ELSE 0
  BY <1>5, GotPageLen
<1>8. Sound(allocator') /\ Balance(allocator') = Balance(allocator) + k
  <2>1. CASE g.ok
    BY <2>1, <1>1, <1>3, <1>4
  <2>2. CASE ~g.ok
    <3>1. Sound(PutObject(g.a)) /\ Balance(PutObject(g.a)) = Balance(g.a) + 1
      BY <1>3, PutObjectSound
    <3>2. allocator' = PutObject(g.a) /\ k = 1 /\ Balance(g.a) = Balance(allocator) - 0
      BY <2>2, <1>1, <1>3
    <3>3. QED
      BY <3>1, <3>2, <1>4
  <2>3. QED
    BY <2>1, <2>2
<1>9. j = (IF x = "absent" THEN 0 ELSE 1) - (IF stage[m] = "absent" THEN 0 ELSE 1)
  BY <1>1
<1>10. /\ mappingPage'[m] = g.page /\ pages[m] = <<>> /\ mappingPage[m] = <<>>
       /\ \A n \in Managers \ {m} : mappingPage'[n] = mappingPage[n]
  BY <1>1 DEF PagesInv, Lists
<1>11. Len(pages'[m]) + Len(mappingPage'[m])
       = Len(pages[m]) + Len(mappingPage[m]) - k - j
  <2>1. Len(<<>>) = 0
    OBVIOUS
  <2>2. /\ Len(pages[m]) = 0 /\ Len(mappingPage[m]) = 0 /\ Len(pages'[m]) = 0
        /\ Len(mappingPage'[m]) = IF g.ok THEN 1 ELSE 0
    BY <2>1, <1>1, <1>7, <1>10
  <2>3. CASE g.ok
    <3>1. k = -1 /\ j = 0 /\ Len(mappingPage'[m]) = 1
      BY <2>2, <2>3
    <3> HIDE DEF k, j
    <3>2. QED
      BY <2>2, <3>1
  <2>4. CASE ~g.ok
    <3>1. k = 1 /\ j = -1 /\ Len(mappingPage'[m]) = 0
      BY <2>2, <2>4
    <3> HIDE DEF k, j
    <3>2. QED
      BY <2>2, <3>1
  <2>5. QED
    BY <2>3, <2>4
<1>12. k \in Int /\ j \in Int
  OBVIOUS
<1> HIDE DEF x, k, j
<1>13. IsFiniteSet(Made') /\ Cardinality(Made') = Cardinality(Made) + j
  BY <1>1, <1>9, MadeChange DEF ObjectsInv, Counts
<1>14. \A i \in DOMAIN mappingPage'[m] : mappingPage'[m][i].used = 0
  BY <1>6, <1>10
<1>15. QED
  BY <1>1, <1>8, <1>10, <1>11, <1>12, <1>13, <1>14, ObjectsStep

(* What a manager owns is in use and not the allocator's own. *)
LEMMA OwnedInUse ==
    ASSUME PagesInv, NEW m \in Managers
    PROVE  /\ Spans(Owned(m)) \subseteq allocator.bitset
           /\ Spans(Owned(m)) \cap allocator.maintenance = {}
           /\ Spans(pages[m]) \subseteq allocator.bitset
           /\ Spans(pages[m]) \cap allocator.maintenance = {}
<1>1. OwnedLists[m] = Owned(m)
  BY DEF OwnedLists
<1>2. /\ Spans(OwnedLists[m]) \subseteq allocator.bitset
      /\ \A i \in DOMAIN OwnedLists[m] : Span(OwnedLists[m][i]) \cap allocator.maintenance = {}
  BY DEF PagesInv, OneOwner
<1>3. Spans(OwnedLists[m]) \cap allocator.maintenance = {}
  BY <1>2 DEF Spans
<1>4. pages[m] \in Seq(Descriptor) /\ mappingPage[m] \in Seq(Descriptor)
  BY DEF PagesInv, Lists
<1>5. \A i \in DOMAIN pages[m] : i \in DOMAIN Owned(m) /\ Owned(m)[i] = pages[m][i]
  BY <1>4, ConcatElements DEF Owned
<1>6. Spans(pages[m]) \subseteq Spans(Owned(m))
  BY <1>5 DEF Spans
<1>7. QED
  BY <1>1, <1>2, <1>3, <1>6

(* SCOREP_Allocator_Free: the descriptors of the list come back. *)
LEMMA FreeCounted ==
    ASSUME PagesInv, PagesInv', ObjectsInv, NEW m \in Managers, Free(m)
    PROVE  ObjectsInv'
<1> DEFINE k == Len(pages[m])
<1>1. /\ allocator' = PutPages(allocator, pages[m]) /\ stage' = stage
      /\ pages' = [pages EXCEPT ![m] = <<>>] /\ mappingPage' = mappingPage
  BY DEF Free
<1>2. pages[m] \in Seq(Descriptor)
  BY DEF PagesInv, Lists
<1>3. Sound(allocator') /\ Balance(allocator') = Balance(allocator) + k
  BY <1>1, <1>2, OwnedInUse, PutPagesSound DEF ObjectsInv
<1>4. k \in Nat /\ Len(mappingPage[m]) \in Nat
  BY LenProperties DEF PagesInv, Lists
<1>5. pages'[m] = <<>> /\ \A n \in Managers \ {m} : pages'[n] = pages[n]
  BY <1>1 DEF PagesInv, Lists
<1>6. Len(pages'[m]) + Len(mappingPage'[m])
      = Len(pages[m]) + Len(mappingPage[m]) - k - 0
  <2> DEFINE b == Len(mappingPage[m])
  <2>1. Len(pages'[m]) = 0 /\ Len(mappingPage'[m]) = b
    BY <1>1, <1>5
  <2>2. b \in Nat /\ k \in Nat
    BY <1>4
  <2> HIDE DEF b, k
  <2>3. 0 + b = k + b - k - 0
    BY <2>2
  <2>4. QED
    BY <2>1, <2>3 DEF b, k
<1>7. IsFiniteSet(Made') /\ Cardinality(Made') = Cardinality(Made) + 0
  <2>1. Made' = Made
    BY <1>1 DEF Made
  <2>2. IsFiniteSet(Made) /\ Cardinality(Made) \in Nat
    BY FS_CardinalityType DEF ObjectsInv, Counts
  <2>3. QED
    BY <2>1, <2>2
<1>8. \A i \in DOMAIN mappingPage'[m] : mappingPage'[m][i].used = 0
  BY <1>1 DEF ObjectsInv
<1>9. k \in Int /\ 0 \in Int
  BY <1>4
<1> HIDE DEF k
<1>10. QED
  BY <1>1, <1>3, <1>5, <1>6, <1>7, <1>8, <1>9, ObjectsStep

(* SCOREP_Allocator_DeletePageManager: the manager's own object as well. *)
LEMMA DeleteCounted ==
    ASSUME PagesInv, PagesInv', ObjectsInv, NEW m \in Managers, Delete(m)
    PROVE  ObjectsInv'
<1> DEFINE a == PutPages(allocator, Owned(m))
           k == Len(pages[m]) + Len(mappingPage[m]) + 1
<1>1. /\ allocator' = PutObject(a) /\ stage' = [stage EXCEPT ![m] = "absent"]
      /\ pages' = [pages EXCEPT ![m] = <<>>]
      /\ mappingPage' = [mappingPage EXCEPT ![m] = <<>>]
      /\ stage[m] = "ready"
  BY DEF Delete, Owned
<1>2. /\ pages[m] \in Seq(Descriptor) /\ mappingPage[m] \in Seq(Descriptor)
      /\ Owned(m) \in Seq(Descriptor)
      /\ Len(Owned(m)) = Len(pages[m]) + Len(mappingPage[m])
  BY ConcatProperties DEF PagesInv, Lists, Owned
<1>3. Len(pages[m]) \in Nat /\ Len(mappingPage[m]) \in Nat
  BY <1>2, LenProperties
<1>4. Sound(allocator') /\ Balance(allocator') = Balance(allocator) + k
  <2>1. Sound(a) /\ Balance(a) = Balance(allocator) + Len(Owned(m))
    BY <1>2, OwnedInUse, PutPagesSound DEF ObjectsInv
  <2> HIDE DEF a
  <2>2. Sound(PutObject(a)) /\ Balance(PutObject(a)) = Balance(a) + 1
    BY <2>1, PutObjectSound
  <2>3. Balance(allocator) \in Int
    BY BalanceType DEF ObjectsInv
  <2> DEFINE n == Len(Owned(m))
  <2>4. n \in Nat /\ k = n + 1
    <3> DEFINE x == Len(pages[m])
               y == Len(mappingPage[m])
    <3>1. x \in Nat /\ y \in Nat /\ n = x + y /\ k = x + y + 1
      BY <1>2, <1>3
    <3> HIDE DEF x, y, n, k
    <3>2. QED
      BY <3>1
  <2>5. Balance(allocator') = (Balance(allocator) + n) + 1
    BY <2>1, <2>2, <1>1
  <2> HIDE DEF n, k
  <2>6. Balance(allocator') = Balance(allocator) + k
    BY <2>3, <2>4, <2>5
  <2>7. QED
    BY <2>2, <2>6, <1>1
<1>5. /\ pages'[m] = <<>> /\ mappingPage'[m] = <<>>
      /\ \A n \in Managers \ {m} : pages'[n] = pages[n] /\ mappingPage'[n] = mappingPage[n]
  BY <1>1 DEF PagesInv, Lists
<1>6. Len(pages'[m]) + Len(mappingPage'[m])
      = Len(pages[m]) + Len(mappingPage[m]) - k - (-1)
  <2> DEFINE x == Len(pages[m])
             y == Len(mappingPage[m])
  <2>1. Len(pages'[m]) = 0 /\ Len(mappingPage'[m]) = 0
    BY <1>5
  <2>2. x \in Nat /\ y \in Nat /\ k = x + y + 1
    BY <1>3
  <2> HIDE DEF x, y, k
  <2>3. 0 + 0 = x + y - k - (-1)
    BY <2>2
  <2>4. QED
    BY <2>1, <2>3 DEF x, y
<1>7. IsFiniteSet(Made') /\ Cardinality(Made') = Cardinality(Made) + (-1)
  <2>1. -1 = (IF "absent" = "absent" THEN 0 ELSE 1) - (IF stage[m] = "absent" THEN 0 ELSE 1)
    BY <1>1
  <2>2. QED
    BY <1>1, <2>1, MadeChange DEF ObjectsInv, Counts
<1>8. \A i \in DOMAIN mappingPage'[m] : mappingPage'[m][i].used = 0
  BY <1>5
<1>9. k \in Int /\ -1 \in Int
  BY <1>3
<1> HIDE DEF k
<1>10. QED
  BY <1>4, <1>5, <1>6, <1>7, <1>8, <1>9, ObjectsStep

(* A descriptor is filled or emptied: no object changes hands. *)
LEMMA RefillCounted ==
    ASSUME PagesInv, PagesInv', ObjectsInv, NEW m \in Managers,
           UNCHANGED <<allocator, stage, mappingPage>>,
           \A n \in Managers \ {m} : pages'[n] = pages[n],
           Len(pages'[m]) = Len(pages[m])
    PROVE  ObjectsInv'
<1>1. Sound(allocator') /\ Balance(allocator') = Balance(allocator) + 0
  BY BalanceType DEF ObjectsInv
<1>2. IsFiniteSet(Made') /\ Cardinality(Made') = Cardinality(Made) + 0
  <2>1. Made' = Made
    BY DEF Made
  <2>2. IsFiniteSet(Made) /\ Cardinality(Made) \in Nat
    BY FS_CardinalityType DEF ObjectsInv, Counts
  <2>3. QED
    BY <2>1, <2>2
<1>3. Len(pages'[m]) + Len(mappingPage'[m])
      = Len(pages[m]) + Len(mappingPage[m]) - 0 - 0
  <2> DEFINE x == Len(pages[m])
             y == Len(mappingPage[m])
  <2>1. Len(pages'[m]) = x /\ Len(mappingPage'[m]) = y
    OBVIOUS
  <2>2. x \in Nat /\ y \in Nat
    BY LenProperties DEF PagesInv, Lists
  <2> HIDE DEF x, y
  <2>3. x + y = x + y - 0 - 0
    BY <2>2
  <2>4. QED
    BY <2>1, <2>3 DEF x, y
<1>4. 0 \in Int /\ \A i \in DOMAIN mappingPage'[m] : mappingPage'[m][i].used = 0
  BY DEF ObjectsInv
<1>5. \A n \in Managers \ {m} : pages'[n] = pages[n] /\ mappingPage'[n] = mappingPage[n]
  OBVIOUS
<1>6. QED
  BY <1>1, <1>2, <1>3, <1>4, <1>5, ObjectsStep

(* A page just obtained is pushed, or none was. *)
LEMMA PageCounted ==
    ASSUME PagesInv, PagesInv', ObjectsInv, NEW m \in Managers,
           NEW order \in Nat \ {0}, NEW g, g = GetPage(allocator, order),
           allocator' = g.a, UNCHANGED <<stage, mappingPage>>,
           \A n \in Managers \ {m} : pages'[n] = pages[n],
           Len(pages'[m]) = IF g.ok THEN Len(pages[m]) + 1 ELSE Len(pages[m])
    PROVE  ObjectsInv'
<1> DEFINE k == IF g.ok THEN -1 ELSE 0
<1>1. Sound(g.a) /\ Balance(g.a) = Balance(allocator) - (IF g.ok THEN 1 ELSE 0)
  BY GetPageSound DEF ObjectsInv
<1>2. Balance(allocator) \in Int /\ Sound(allocator')
  BY <1>1, BalanceType DEF ObjectsInv
<1>3. k \in Int /\ Balance(allocator') = Balance(allocator) + k
  <2>1. CASE g.ok
    BY <2>1, <1>1, <1>2
  <2>2. CASE ~g.ok
    BY <2>2, <1>1, <1>2
  <2>3. QED
    BY <2>1, <2>2
<1>4. IsFiniteSet(Made') /\ Cardinality(Made') = Cardinality(Made) + 0
  <2>1. Made' = Made
    BY DEF Made
  <2>2. IsFiniteSet(Made) /\ Cardinality(Made) \in Nat
    BY FS_CardinalityType DEF ObjectsInv, Counts
  <2>3. QED
    BY <2>1, <2>2
<1>5. Len(pages'[m]) + Len(mappingPage'[m])
      = Len(pages[m]) + Len(mappingPage[m]) - k - 0
  <2> DEFINE x == Len(pages[m])
             y == Len(mappingPage[m])
             z == Len(pages'[m])
  <2>1. x \in Nat /\ y \in Nat /\ Len(mappingPage'[m]) = y
    BY LenProperties DEF PagesInv, Lists
  <2>2. z = x - k
    <3>1. CASE g.ok
      <4>1. k = -1 /\ z = x + 1
        BY <3>1
      <4> HIDE DEF x, y, z, k
      <4>2. QED
        BY <4>1, <2>1
    <3>2. CASE ~g.ok
      <4>1. k = 0 /\ z = x
        BY <3>2
      <4> HIDE DEF x, y, z, k
      <4>2. QED
        BY <4>1, <2>1
    <3>3. QED
      BY <3>1, <3>2
  <2> HIDE DEF x, y, z, k
  <2>3. z + y = x + y - k - 0
    BY <2>1, <2>2, <1>3
  <2>4. QED
    BY <2>1, <2>3 DEF x, y, z
<1>6. 0 \in Int /\ \A i \in DOMAIN mappingPage'[m] : mappingPage'[m][i].used = 0
  BY DEF ObjectsInv
<1>7. \A n \in Managers \ {m} : pages'[n] = pages[n] /\ mappingPage'[n] = mappingPage[n]
  OBVIOUS
<1> HIDE DEF k
<1>8. QED
  BY <1>2, <1>3, <1>4, <1>5, <1>6, <1>7, ObjectsStep

(* page_manager_alloc: a descriptor for a new page, and no object at all when
   a page of the manager has room or no page can be found. *)
LEMMA PageManagerAllocCounted ==
    ASSUME PagesInv, PagesInv', ObjectsInv, NEW m \in Managers,
           NEW size \in Sizes, NEW alignment \in Alignments,
           PageManagerAlloc(m, size, alignment)
    PROVE  ObjectsInv'
<1> DEFINE g == GetPage(allocator, Order(size))
<1>1. UNCHANGED <<stage, mappingPage>>
  BY DEF PageManagerAlloc
<1>2. pages[m] \in Seq(Descriptor) /\ pages \in Lists
  BY DEF PagesInv, Lists
<1>3. Order(size) \in Nat \ {0}
  BY OrderPositive, RequestsAssumption
<1>4. CASE AllocFromList(m, size, alignment)
  <2>1. PICK i \in DOMAIN pages[m] :
           /\ pages' = [pages EXCEPT ![m][i] = Grab(@, size, alignment)]
           /\ UNCHANGED allocator
    BY <1>4 DEF AllocFromList
  <2> DEFINE p == Grab(pages[m][i], size, alignment)
  <2>2. pages' = [pages EXCEPT ![m] = [pages[m] EXCEPT ![i] = p]]
    BY <2>1
  <2>3. p \in Descriptor
    <3>1. pages[m][i] \in Descriptor
      BY LenProperties DEF PagesInv, Lists
    <3>2. QED
      BY <3>1, GrabType
  <2> HIDE DEF p
  <2>4. Len([pages[m] EXCEPT ![i] = p]) = Len(pages[m])
    BY <1>2, <2>3
  <2>5. /\ pages'[m] = [pages[m] EXCEPT ![i] = p]
        /\ \A n \in Managers \ {m} : pages'[n] = pages[n]
    BY <1>2, <2>2 DEF Lists
  <2>6. Len(pages'[m]) = Len(pages[m])
    BY <2>4, <2>5
  <2>7. QED
    BY <2>1, <2>5, <2>6, <1>1, RefillCounted
<1>5. CASE AllocFromNewPage(m, size, alignment)
  <2> DEFINE q == Grab(g.page[1], size, alignment)
  <2>1. g.ok /\ allocator' = g.a /\ pages' = [pages EXCEPT ![m] = <<q>> \o @]
    BY <1>5 DEF AllocFromNewPage
  <2> HIDE DEF q
  <2>2. pages'[m] = <<q>> \o pages[m] /\ \A n \in Managers \ {m} : pages'[n] = pages[n]
    BY <1>2, <2>1 DEF Lists
  <2>3. Len(pages'[m]) = Len(pages[m]) + 1
    <3>1. pages[m] \in Seq(Descriptor \cup {q}) /\ <<q>> \in Seq(Descriptor \cup {q})
      BY <1>2
    <3>2. Len(<<q>> \o pages[m]) = Len(<<q>>) + Len(pages[m]) /\ Len(<<q>>) = 1
      BY <3>1, ConcatProperties
    <3>3. Len(pages[m]) \in Nat
      BY <1>2, LenProperties
    <3>4. QED
      BY <2>2, <3>2, <3>3
  <2> HIDE DEF g
  <2>4. Len(pages'[m]) = IF g.ok THEN Len(pages[m]) + 1 ELSE Len(pages[m])
    BY <2>1, <2>3
  <2>5. g = GetPage(allocator, Order(size)) /\ allocator' = g.a
    BY <2>1 DEF g
  <2>6. QED
    BY <2>2, <2>4, <2>5, <1>1, <1>3, PageCounted
<1>6. CASE AllocFails(m, size, alignment)
  <2>1. ~g.ok /\ allocator' = g.a /\ pages' = pages
    BY <1>6 DEF AllocFails
  <2> HIDE DEF g
  <2>2. Len(pages'[m]) = IF g.ok THEN Len(pages[m]) + 1 ELSE Len(pages[m])
    BY <2>1
  <2>3. g = GetPage(allocator, Order(size)) /\ \A n \in Managers \ {m} : pages'[n] = pages[n]
    BY <2>1 DEF g
  <2>4. QED
    BY <2>1, <2>2, <2>3, <1>1, <1>3, PageCounted
<1>7. QED
  BY <1>4, <1>5, <1>6 DEF PageManagerAlloc

(* SCOREP_Allocator_RollbackAllocMovable changes no object. *)
LEMMA RollbackCounted ==
    ASSUME PagesInv, PagesInv', ObjectsInv, NEW m \in Managers, RollbackAllocMovable(m)
    PROVE  ObjectsInv'
<1>1. PICK i \in DOMAIN pages[m] :
         pages' = [pages EXCEPT ![m][i].used = lastAllocation[m] - Start(pages[m][i])]
  BY DEF RollbackAllocMovable
<1>2. pages[m] \in Seq(Descriptor) /\ pages \in Lists
  BY DEF PagesInv, Lists
<1> DEFINE p == [pages[m][i] EXCEPT !.used = lastAllocation[m] - Start(pages[m][i])]
<1>3. pages' = [pages EXCEPT ![m] = [pages[m] EXCEPT ![i] = p]]
  BY <1>1
<1> HIDE DEF p
<1>4. /\ pages'[m] = [pages[m] EXCEPT ![i] = p]
      /\ \A n \in Managers \ {m} : pages'[n] = pages[n]
  BY <1>2, <1>3 DEF Lists
<1>5. Len(pages'[m]) = Len(pages[m])
  <2>1. pages[m] \in Seq(Descriptor \cup {p})
    BY <1>2
  <2>2. QED
    BY <2>1, <1>4
<1>6. UNCHANGED <<allocator, stage, mappingPage>>
  BY DEF RollbackAllocMovable
<1>7. QED
  BY <1>4, <1>5, <1>6, RefillCounted

(* SCOREP_Allocator_AllocMovedPage: a descriptor, or none. *)
LEMMA AllocMovedPageCounted ==
    ASSUME PagesInv, PagesInv', ObjectsInv, NEW m \in Managers,
           NEW r \in DOMAIN RemoteUsage, AllocMovedPage(m, r)
    PROVE  ObjectsInv'
<1> DEFINE g == GetPage(allocator, Order(RemoteUsage[r]))
           q == [g.page[1] EXCEPT !.used = RemoteUsage[r]]
<1>1. /\ allocator' = g.a /\ UNCHANGED <<stage, mappingPage>>
      /\ g.ok => pages' = [pages EXCEPT ![m] = <<q>> \o @]
      /\ ~g.ok => pages' = pages
  BY DEF AllocMovedPage
<1>2. Order(RemoteUsage[r]) \in Nat \ {0}
  BY OrderPositive, RequestsAssumption
<1>3. pages[m] \in Seq(Descriptor) /\ pages \in Lists
  BY DEF PagesInv, Lists
<1> HIDE DEF q, g
<1>4. \A n \in Managers \ {m} : pages'[n] = pages[n]
  BY <1>1, <1>3 DEF Lists
<1>5. Len(pages'[m]) = IF g.ok THEN Len(pages[m]) + 1 ELSE Len(pages[m])
  <2>1. CASE g.ok
    <3>1. pages'[m] = <<q>> \o pages[m]
      BY <2>1, <1>1, <1>3 DEF Lists
    <3>2. pages[m] \in Seq(Descriptor \cup {q}) /\ <<q>> \in Seq(Descriptor \cup {q})
      BY <1>3
    <3>3. Len(<<q>> \o pages[m]) = Len(<<q>>) + Len(pages[m]) /\ Len(<<q>>) = 1
      BY <3>2, ConcatProperties
    <3>4. Len(pages[m]) \in Nat
      BY <1>3, LenProperties
    <3>5. QED
      BY <2>1, <3>1, <3>3, <3>4
  <2>2. CASE ~g.ok
    BY <2>2, <1>1
  <2>3. QED
    BY <2>1, <2>2
<1>6. g = GetPage(allocator, Order(RemoteUsage[r]))
  BY DEF g
<1>7. QED
  BY <1>1, <1>2, <1>4, <1>5, <1>6, PageCounted

-----------------------------------------------------------------------------
(* All operations *)

LEMMA ObjectsInit == Init => ObjectsInv
<1> SUFFICES ASSUME Init
             PROVE  ObjectsInv
  OBVIOUS
<1>1. /\ allocator.bitset = 0..MaintPages - 1 /\ allocator.maintenance = 0..MaintPages - 1
      /\ allocator.freeObjects = FirstObjects
      /\ allocator.nAllocated = MaintPages /\ allocator.highWatermark = MaintPages
  BY DEF Init
<1>2. allocator \in AllocatorState
  BY PagesInvInit DEF PagesInv
<1>3. Cardinality(0..MaintPages - 1) = MaintPages
  <2> DEFINE last == MaintPages - 1
  <2>1. last \in Int /\ last >= 0 /\ last - 0 + 1 = MaintPages
    BY PagesAssumption
  <2> HIDE DEF last
  <2>2. Cardinality(0..last) = IF 0 > last THEN 0 ELSE last - 0 + 1
    BY <2>1, FS_Interval
  <2>3. Cardinality(0..last) = MaintPages
    BY <2>1, <2>2
  <2>4. QED
    BY <2>3 DEF last
<1>4. MaintPages \in Nat /\ FirstObjects \in Nat /\ ObjectsPerPage \in Nat
  BY PagesAssumption
<1>5. Sound(allocator)
  BY <1>1, <1>2, <1>3, <1>4 DEF Sound
<1>6. Balance(allocator) = FirstObjects - MaintPages * ObjectsPerPage
  BY <1>1, <1>3 DEF Balance
<1>7. Pairs(OwnedLists) = {} /\ Made = {}
  <2>1. \A m \in Managers : OwnedLists[m] = <<>> /\ stage[m] = "absent"
    BY DEF Init, OwnedLists, Owned
  <2>2. QED
    BY <2>1 DEF Pairs, Made
<1>8. IsFiniteSet({}) /\ Cardinality({}) = 0
  BY FS_EmptySet
<1>9. Counts(allocator, OwnedLists, Made)
  <2>1. Balance(allocator) \in Int
    BY <1>5, BalanceType
  <2>2. QED
    BY <2>1, <1>6, <1>7, <1>8 DEF Counts
<1>10. \A m \in Managers : mappingPage[m] = <<>>
  BY DEF Init
<1>11. QED
  BY <1>5, <1>9, <1>10 DEF ObjectsInv

LEMMA ObjectsNext == PagesInv /\ ObjectsInv /\ [Next]_vars => ObjectsInv'
<1> SUFFICES ASSUME PagesInv, ObjectsInv, [Next]_vars
             PROVE  ObjectsInv'
  OBVIOUS
<1>1. PagesInv'
  BY PagesInvNext
<1>2. CASE UNCHANGED vars
  <2>1. OwnedLists' = OwnedLists /\ Made' = Made
    BY <1>2 DEF vars, OwnedLists, Owned, Made
  <2>2. QED
    BY <1>2, <2>1 DEF vars, ObjectsInv
<1>3. ASSUME NEW m \in Managers,
             CreateObject(m) \/ CreatePage(m) \/ CreateMapping(m)
      PROVE  ObjectsInv'
  BY <1>1, <1>3, CreateObjectCounted, CreatePageCounted, CreateMappingCounted
<1>4. ASSUME NEW m \in Managers, Free(m) \/ Delete(m) \/ RollbackAllocMovable(m)
      PROVE  ObjectsInv'
  BY <1>1, <1>4, FreeCounted, DeleteCounted, RollbackCounted
<1>5. ASSUME NEW m \in Managers, NEW size \in Sizes, NEW alignment \in Alignments,
             Alloc(m, size, alignment)
      PROVE  ObjectsInv'
  BY <1>1, <1>5, PageManagerAllocCounted DEF Alloc
<1>6. ASSUME NEW m \in Managers, NEW size \in Sizes, AllocMovable(m, size)
      PROVE  ObjectsInv'
  BY <1>1, <1>6, PageManagerAllocCounted, RequestsAssumption DEF AllocMovable
<1>7. ASSUME NEW m \in Managers, NEW r \in DOMAIN RemoteUsage, AllocMovedPage(m, r)
      PROVE  ObjectsInv'
  BY <1>1, <1>7, AllocMovedPageCounted
<1>8. QED
  BY <1>2, <1>3, <1>4, <1>5, <1>6, <1>7 DEF Next

(* In every reachable state the allocator's counters fit its bitset and its
   objects are accounted for, besides what the other two invariants say. *)
THEOREM CountersInvariance == Spec => [](PagesInv /\ ClientsInv /\ CountersInv)
<1>1. Spec => []ObjectsInv
  BY ObjectsInit, ObjectsNext, PagesInvariance, PTL DEF Spec
<1>2. QED
  BY <1>1, CountsAreConserved, ClientsInvariance, PTL

(* Objects are neither lost nor given back twice: however get_page_manager,
   page_manager_alloc or the constructor of a moved manager fail half way,
   free objects, page descriptors and managers make up what the maintenance
   pages provide. *)
THEOREM Conserved == Spec => []ObjectsConserved
<1>1. CountersInv => ObjectsConserved
  BY DEF CountersInv
<1>2. QED
  BY <1>1, CountersInvariance, PTL

-----------------------------------------------------------------------------
(* Types *)

(* Every page that is owned lies in the block, whole. *)
LEMMA OwnedPage ==
    ASSUME PagesInv, NEW m \in Managers, NEW i \in DOMAIN Owned(m)
    PROVE  LET p == Owned(m)[i]
           IN  p.id \in PageIds /\ p.order \in 1..Capacity /\ p.id + p.order <= Capacity
<1> DEFINE p == Owned(m)[i]
<1>1. Owned(m) \in Seq(Descriptor)
  BY ConcatProperties DEF PagesInv, Lists, Owned
<1>2. p \in Descriptor
  BY <1>1, LenProperties
<1>3. Span(p) \subseteq PageIds
  BY OwnedInBlock DEF Spans
<1> HIDE DEF p
<1>4. p.id \in Nat /\ p.order \in Nat \ {0}
  BY <1>2 DEF Descriptor
<1>5. p.id \in Span(p) /\ p.id + p.order - 1 \in Span(p)
  BY <1>4 DEF Span
<1>6. p.id \in PageIds /\ p.id + p.order - 1 \in 0..Capacity - 1 /\ Capacity \in Nat
  BY <1>3, <1>5, PagesAssumption DEF PageIds
<1>7. QED
  BY <1>4, <1>6 DEF p

(* A list of such pages, within what they hold, is a list of records. *)
LEMMA RecordList ==
    ASSUME NEW list \in Seq(Descriptor),
           \A i \in DOMAIN list :
              /\ list[i].id \in PageIds /\ list[i].order \in 1..Capacity
              /\ 0 <= list[i].used /\ list[i].used <= list[i].order * PageSize
    PROVE  list \in Seq(PageRecord)
<1>1. Len(list) \in Nat /\ DOMAIN list = 1..Len(list)
  BY LenProperties
<1>2. ASSUME NEW i \in DOMAIN list
      PROVE  list[i] \in PageRecord
  <2> DEFINE p == list[i]
  <2>1. p \in Descriptor
    BY LenProperties
  <2>2. /\ p.id \in PageIds /\ p.order \in 1..Capacity
        /\ 0 <= p.used /\ p.used <= p.order * PageSize
    OBVIOUS
  <2> HIDE DEF p
  <2>3. p = [id |-> p.id, order |-> p.order, used |-> p.used] /\ p.used \in Int
    BY <2>1 DEF Descriptor
  <2>4. p.order * PageSize <= Capacity * PageSize /\ p.order * PageSize \in Int
        /\ Capacity * PageSize \in Int
    <3>1. p.order \in Int /\ Capacity \in Int /\ PageSize \in Nat /\ p.order <= Capacity
      BY <2>2, PagesAssumption
    <3>2. QED
      BY <3>1, TimesMonotonic
  <2>5. p.used \in 0..Capacity * PageSize
    BY <2>2, <2>3, <2>4
  <2>6. QED
    BY <2>2, <2>3, <2>5 DEF PageRecord, p
<1>3. QED
  BY <1>1, <1>2

(* The allocator's fields stay in range, and so does every descriptor: its run
   within the block, its used part within its run. *)
THEOREM TypeCorrect == Spec => []TypeOK
<1>1. ASSUME PagesInv, ClientsInv, CountersInv
      PROVE  TypeOK
  <2>1. \A m \in Managers : pages[m] \in Seq(Descriptor) /\ mappingPage[m] \in Seq(Descriptor)
    BY <1>1 DEF PagesInv, Lists
  <2>2. ASSUME NEW m \in Managers
        PROVE  /\ \A i \in DOMAIN pages[m] :
                     i \in DOMAIN Owned(m) /\ Owned(m)[i] = pages[m][i]
               /\ \A i \in DOMAIN mappingPage[m] : \E j \in DOMAIN Owned(m) :
                     Owned(m)[j] = mappingPage[m][i]
    <3> DEFINE s == pages[m]
               t == mappingPage[m]
    <3>1. s \in Seq(Descriptor) /\ t \in Seq(Descriptor) /\ Owned(m) = s \o t
      BY <2>1 DEF Owned
    <3> HIDE DEF s, t
    <3>2. /\ \A i \in DOMAIN s : i \in DOMAIN (s \o t) /\ (s \o t)[i] = s[i]
          /\ \A i \in DOMAIN t : /\ Len(s) + i \in DOMAIN (s \o t)
                                 /\ (s \o t)[Len(s) + i] = t[i]
      BY <3>1, ConcatElements
    <3>3. /\ \A i \in DOMAIN s : i \in DOMAIN Owned(m) /\ Owned(m)[i] = s[i]
          /\ \A i \in DOMAIN t : \E j \in DOMAIN Owned(m) : Owned(m)[j] = t[i]
      BY <3>1, <3>2
    <3>4. QED
      BY <3>3 DEF s, t
  <2>3. ASSUME NEW m \in Managers, NEW i \in DOMAIN pages[m]
        PROVE  LET p == pages[m][i]
               IN  /\ p.id \in PageIds /\ p.order \in 1..Capacity
                   /\ p.id + p.order <= Capacity
                   /\ 0 <= p.used /\ p.used <= p.order * PageSize
    <3>1. UsedInPage(pages)
      BY <1>1 DEF ClientsInv, RegionsKept
    <3>2. QED
      BY <3>1, <1>1, <2>2, OwnedPage DEF UsedInPage
  <2>4. ASSUME NEW m \in Managers, NEW i \in DOMAIN mappingPage[m]
        PROVE  LET p == mappingPage[m][i]
               IN  /\ p.id \in PageIds /\ p.order \in 1..Capacity
                   /\ 0 <= p.used /\ p.used <= p.order * PageSize
    <3> DEFINE p == mappingPage[m][i]
    <3>1. p.id \in PageIds /\ p.order \in 1..Capacity
      BY <1>1, <2>2, OwnedPage
    <3>2. p.used = 0
      BY <1>1 DEF CountersInv
    <3> HIDE DEF p
    <3>3. 0 <= p.order * PageSize
      BY <3>1, PagesAssumption
    <3>4. QED
      BY <3>1, <3>2, <3>3 DEF p
  <2>5. \A m \in Managers : pages[m] \in Seq(PageRecord) /\ mappingPage[m] \in Seq(PageRecord)
    BY <2>1, <2>3, <2>4, RecordList
  <2>6. pages \in [Managers -> Seq(PageRecord)] /\ mappingPage \in [Managers -> Seq(PageRecord)]
    BY <1>1, <2>5 DEF PagesInv, Lists
  <2>7. allocator \in [bitset : SUBSET PageIds, maintenance : SUBSET PageIds,
                       freeObjects : Nat, nAllocated : Nat, highWatermark : Nat]
    <3>1. allocator \in AllocatorState /\ allocator.bitset \in SUBSET PageIds
      BY <1>1 DEF PagesInv, AllocatorState
    <3>2. Cardinality(allocator.bitset) \in Nat
      BY <3>1, PagesFinite
    <3>3. /\ allocator.freeObjects >= 0 /\ allocator.highWatermark >= 0
          /\ Cardinality(allocator.bitset) <= allocator.nAllocated
      BY <1>1 DEF CountersInv
    <3>4. allocator.freeObjects \in Nat /\ allocator.nAllocated \in Nat
          /\ allocator.highWatermark \in Nat
      BY <3>1, <3>2, <3>3 DEF AllocatorState
    <3>5. QED
      BY <3>1, <3>4 DEF AllocatorState
  <2>8. lastAllocation \in [Managers -> Nat]
    <3>1. ASSUME NEW m \in Managers, lastAllocation[m] # 0
          PROVE  lastAllocation[m] \in Nat
      <4>1. PICK r \in inUse[m] : r[1] = lastAllocation[m]
        BY <1>1, <3>1 DEF ClientsInv, RollbackPossible
      <4>2. r \in Regions
        BY <1>1 DEF ClientsInv, RegionsKept
      <4>3. r[1] \in PageSize..Memory /\ PageSize \in Nat
        BY <4>2, RegionBounds, PagesAssumption
      <4>4. QED
        BY <4>1, <4>3
    <3>2. QED
      BY <1>1, <3>1 DEF PagesInv
  <2>9. stage \in [Managers -> {"absent", "object", "ready"}]
        /\ mapping \in [Managers -> [PageIds -> PageIds]]
    BY <1>1 DEF PagesInv, ClientsInv
  <2>10. QED
    BY <2>3, <2>6, <2>7, <2>8, <2>9 DEF TypeOK
<1>2. QED
  BY <1>1, CountersInvariance, PTL
=============================================================================
