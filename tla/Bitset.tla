------------------------------- MODULE Bitset -------------------------------
(***************************************************************************)
(* The bitset of src/src/utils/memory/scorep_bitset.h, word by word.       *)
(*                                                                         *)
(* A word is the set of the positions of its 1 bits, so that `|', `&' and  *)
(* `~' are union, intersection and complement and the masks keep their     *)
(* shape.  The bits behind the last member are 1 (bitset_mark_invalid):    *)
(* the searches compare whole words and rely on it.                        *)
(***************************************************************************)
EXTENDS Integers, FiniteSets

CONSTANTS WordSize,      \* BITSET_WORDSIZE
          MemberCounts   \* numbers of members a bitset is made for

ASSUME WordSizeAssumption == WordSize \in Nat \ {0}
ASSUME MemberCountsAssumption == MemberCounts \subseteq Nat \ {0}

VARIABLES numberOfMembers,
          words,     \* index -> set of positions of 1 bits
          result     \* what the last search returned

vars == <<numberOfMembers, words, result>>

Bits == 0..WordSize - 1
FullWords == numberOfMembers \div WordSize
LastBit == numberOfMembers % WordSize
NWords == FullWords + (IF LastBit # 0 THEN 1 ELSE 0)

(* bitset_mark_invalid, on the zeroed memory of the constructor *)
MarkInvalid(i) == IF i = FullWords THEN LastBit..WordSize - 1 ELSE {}

Init ==
    /\ numberOfMembers \in MemberCounts
    /\ words = [i \in 0..NWords - 1 |-> MarkInvalid(i)]
    /\ result = 0

-----------------------------------------------------------------------------
(* The mask that bitset_set_range and bitset_clear_range apply to word i:
   a partial first word, full words, a partial last word. *)

(* Bug: a range within one word is not cut at its end. *)
RangeMaskOpen(i, offset, length) ==
    LET firstWord == offset \div WordSize
        firstBit  == offset % WordSize
        lastWord  == (offset + length) \div WordSize
        lastBit   == (offset + length) % WordSize
        nextWord  == IF firstBit # 0 THEN firstWord + 1 ELSE firstWord
    IN  IF i = firstWord /\ firstBit # 0 THEN firstBit..WordSize - 1
        ELSE IF i \in nextWord..lastWord - 1 THEN Bits
        ELSE IF i = lastWord THEN 0..lastBit - 1
        ELSE {}

RangeMask(i, offset, length) ==
    LET firstWord == offset \div WordSize
        firstBit  == offset % WordSize
        lastWord  == (offset + length) \div WordSize
        lastBit   == (offset + length) % WordSize
        nextWord  == IF firstBit # 0 THEN firstWord + 1 ELSE firstWord
        oneWord   == firstWord = lastWord
    IN  IF i = firstWord /\ firstBit # 0
        THEN IF oneWord /\ lastBit # 0
             THEN firstBit..lastBit - 1
             ELSE firstBit..WordSize - 1
        ELSE IF i \in nextWord..lastWord - 1 THEN Bits
        ELSE IF i = lastWord /\ lastBit # 0 /\ ~(oneWord /\ firstBit # 0)
             THEN 0..lastBit - 1
        ELSE {}

InRange(offset, length) ==
    offset < numberOfMembers /\ length > 0 /\ offset + length <= numberOfMembers

Set(offset, length) ==
    words' = [i \in DOMAIN words |-> words[i] \cup RangeMask(i, offset, length)]

(* bitset_set_range, bitset_set: the asserts are the caller's promise. *)
SetRange(offset, length) ==
    /\ InRange(offset, length)
    /\ \A i \in DOMAIN words : words[i] \cap RangeMask(i, offset, length) = {}
    /\ Set(offset, length)
    /\ UNCHANGED <<numberOfMembers, result>>

(* bitset_clear_range, bitset_clear *)
ClearRange(offset, length) ==
    /\ InRange(offset, length)
    /\ \A i \in DOMAIN words : RangeMask(i, offset, length) \subseteq words[i]
    /\ words' = [i \in DOMAIN words |-> words[i] \ RangeMask(i, offset, length)]
    /\ UNCHANGED <<numberOfMembers, result>>

-----------------------------------------------------------------------------
(* Searches *)

Lowest(S) == CHOOSE b \in S : \A c \in S : b <= c

(* The first word from i on with a bit in it: its lowest such bit, counted
   from the start of the bitset; numberOfMembers if there is no such word. *)
FirstOf(w, i) ==
    LET hits == {j \in i..NWords - 1 : w[j] # {}}
    IN  IF hits = {} THEN numberOfMembers
        ELSE Lowest(hits) * WordSize + Lowest(w[Lowest(hits)])

(* The bits of the words to search from offset on: bits before offset in its
   word are ignored. *)
From(w, offset) ==
    [w EXCEPT ![offset \div WordSize] = @ \ 0..(offset % WordSize) - 1]

(* bitset_next_free *)
NextFree(offset) ==
    LET free == [i \in DOMAIN words |-> Bits \ words[i]]
    IN  IF offset >= numberOfMembers THEN numberOfMembers
        ELSE FirstOf(From(free, offset), offset \div WordSize)

(* bitset_next_used *)
NextUsed(offset) == FirstOf(From(words, offset), offset \div WordSize)

(* Bug: the search skips the wanted length, not the run that was too short. *)
FirstRunSkips(length) ==
    LET search[pos \in 0..numberOfMembers] ==
            IF pos = numberOfMembers THEN numberOfMembers
            ELSE IF NextUsed(pos) - pos >= length THEN pos
            ELSE IF pos + length >= numberOfMembers THEN numberOfMembers
            ELSE search[NextFree(pos + length)]
    IN  search[NextFree(0)]

(* bitset_find_and_set_range: the runs of free bits, lowest first *)
FirstRun(length) ==
    LET search[pos \in 0..numberOfMembers] ==
            IF pos = numberOfMembers THEN numberOfMembers
            ELSE IF NextUsed(pos) - pos >= length THEN pos
            ELSE search[NextFree(NextUsed(pos))]
    IN  search[NextFree(0)]

FindAndSetRange(length) ==
    /\ length \in 1..numberOfMembers
    /\ result' = FirstRun(length)
    /\ IF result' < numberOfMembers THEN Set(result', length) ELSE UNCHANGED words
    /\ UNCHANGED numberOfMembers

(* bitset_find_and_set, which does not look for the end of the run *)
FindAndSet ==
    /\ result' = NextFree(0)
    /\ IF result' < numberOfMembers THEN Set(result', 1) ELSE UNCHANGED words
    /\ UNCHANGED numberOfMembers

Next ==
    \/ FindAndSet
    \/ \E length \in 1..numberOfMembers :
          \/ FindAndSetRange(length)
          \/ \E offset \in 0..numberOfMembers - 1 :
                SetRange(offset, length) \/ ClearRange(offset, length)

Spec == Init /\ [][Next]_vars

-----------------------------------------------------------------------------
(* Properties *)

(* Words hold bits, and those behind the last member stay 1: a clear that
   reached them would let a search return a page that does not exist. *)
TypeOK ==
    /\ numberOfMembers \in MemberCounts
    /\ words \in [0..NWords - 1 -> SUBSET Bits]
    /\ LastBit # 0 => LastBit..WordSize - 1 \subseteq words[NWords - 1]
    /\ result \in 0..numberOfMembers

Members == {p \in 0..numberOfMembers - 1 :
                p % WordSize \in words[p \div WordSize]}

Positions == INSTANCE BitsetSpec WITH used <- Members

(* Whatever the ranges' alignment to words, an operation changes exactly the
   positions it was given, and a search returns the lowest run that fits. *)
ImplementsBitsetSpec == Positions!Spec
=============================================================================
