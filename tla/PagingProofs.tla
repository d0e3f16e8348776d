---------------------------- MODULE PagingProofs ----------------------------
(***************************************************************************)
(* A page of any size exists for every finite set of keys, and a walk      *)
(* through a paged map is complete, for all limits.                        *)
(***************************************************************************)
EXTENDS Paging, FiniteSetTheorems, TLAPS

-----------------------------------------------------------------------------
(***************************************************************************)
(* Pages                                                                   *)
(***************************************************************************)

\* Every set of numbers that holds 0 and the successors of its members holds all.
LEMMA LeastCounterexample ==
    ASSUME NEW T, 0 \in T, \A n \in Nat : n \in T => n + 1 \in T
    PROVE  Nat \subseteq T
  <1> DEFINE Others == Nat \ T
  <1> SUFFICES ASSUME Others # {} PROVE FALSE
    OBVIOUS
  <1>1. PICK n \in Others : \A m \in Others : ~(<<m, n>> \in OpToRel(<, Nat))
    <2>1. Others \subseteq Nat
      OBVIOUS
    <2> HIDE DEF Others
    <2> QED
      BY <2>1, WFMin, NatLessThanWellFounded
  <1>2. \A m \in Nat : m < n => m \in T
    BY <1>1 DEF OpToRel
  <1>3. n # 0 /\ n - 1 \in Nat
    OBVIOUS
  <1> QED
    BY <1>2, <1>3

\* Numbers, if there are any, have a least one.
LEMMA LeastNumber ==
    ASSUME NEW S \in SUBSET Nat, S # {}
    PROVE  \E n \in S : \A m \in S : n <= m
  <1>1. PICK n \in S : \A m \in S : ~(<<m, n>> \in OpToRel(<, Nat))
    BY WFMin, NatLessThanWellFounded
  <1>2. \A m \in S : n <= m
    <2> TAKE m \in S
    <2>1. m \in Nat /\ n \in Nat /\ ~(m < n)
      BY <1>1 DEF OpToRel
    <2> QED
      BY <2>1
  <1> QED
    BY <1>2

\* The first keys of a finite set, however many are asked for, can be told.
PagesOfSize(rest, n) ==
    {page \in SUBSET rest :
        Cardinality(page) = n /\ \A k \in page, other \in rest \ page : k < other}

LEMMA EmptyPage == ASSUME NEW rest PROVE {} \in PagesOfSize(rest, 0)
  BY FS_EmptySet DEF PagesOfSize

\* A page that leaves something out can be extended by the least key left.
LEMMA LargerPage ==
    ASSUME NEW rest \in SUBSET Nat, IsFiniteSet(rest), NEW n \in Nat,
           NEW page \in PagesOfSize(rest, n), page # rest
    PROVE  PagesOfSize(rest, n + 1) # {}
  <1>1. page \subseteq rest /\ rest \ page # {} /\ rest \ page \subseteq Nat
    BY DEF PagesOfSize
  <1>2. PICK k \in rest \ page : \A m \in rest \ page : k <= m
    BY <1>1, LeastNumber
  <1> DEFINE more == page \cup {k}
  <1>3. more \subseteq rest
    BY <1>1
  <1>4. Cardinality(more) = n + 1
    <2>1. IsFiniteSet(page)
      BY <1>1, FS_Subset
    <2> QED
      BY <2>1, FS_AddElement DEF PagesOfSize
  <1>5. ASSUME NEW j \in more, NEW other \in rest \ more PROVE j < other
    <2>1. other \in rest \ page /\ other # k /\ other \in Nat /\ k \in Nat
      OBVIOUS
    <2>2. CASE j = k
      BY <1>2, <2>1, <2>2
    <2>3. CASE j \in page
      BY <2>1, <2>3 DEF PagesOfSize
    <2> QED
      BY <2>2, <2>3
  <1> HIDE DEF more
  <1>6. more \in PagesOfSize(rest, n + 1)
    BY <1>3, <1>4, <1>5 DEF PagesOfSize
  <1> QED
    BY <1>6

LEMMA PageExists ==
    ASSUME NEW keys \in SUBSET Nat, IsFiniteSet(keys), NEW start \in Nat, NEW limit,
           PageSize(limit) \in Nat
    PROVE  \E page \in SUBSET keys : IsPage(page, keys, start, limit)
  <1> DEFINE rest == Rest(keys, start)
             size == PageSize(limit)
             full == {n \in Nat : n <= size => \/ PagesOfSize(rest, n) # {}
                                               \/ \E m \in 0 .. n : rest \in PagesOfSize(rest, m)}
  <1>1. rest \in SUBSET Nat /\ IsFiniteSet(rest)
    BY FS_Subset DEF Rest
  <1> HIDE DEF rest, size
  <1>2. 0 \in full
    BY EmptyPage
  <1>3. ASSUME NEW n \in Nat, n \in full PROVE n + 1 \in full
    <2> SUFFICES ASSUME n + 1 <= size
                 PROVE  \/ PagesOfSize(rest, n + 1) # {}
                        \/ \E m \in 0 .. n + 1 : rest \in PagesOfSize(rest, m)
      OBVIOUS
    <2>0. size \in Nat
      BY DEF size
    <2>1. CASE \E m \in 0 .. n : rest \in PagesOfSize(rest, m)
      BY <2>1
    <2>2. CASE PagesOfSize(rest, n) # {}
      <3>1. PICK page \in PagesOfSize(rest, n) : TRUE
        BY <2>2
      <3>2. CASE page = rest
        BY <3>1, <3>2
      <3>3. CASE page # rest
        BY <1>1, <3>1, <3>3, LargerPage
      <3> QED
        BY <3>2, <3>3
    <2> QED
      BY <2>0, <2>1, <2>2, <1>3
  <1>4. size \in full /\ size \in Nat
    <2> HIDE DEF full
    <2> QED
      BY <1>2, <1>3, LeastCounterexample DEF size
  <1>5. PICK m \in 0 .. size : PagesOfSize(rest, m) # {} /\ (m < size => rest \in PagesOfSize(rest, m))
    BY <1>4
  <1>6. PICK page \in PagesOfSize(rest, m) : m < size => page = rest
    BY <1>5
  <1>7. page \in SUBSET keys
    BY <1>6 DEF PagesOfSize, rest, Rest
  <1>8. IsPage(page, keys, start, limit)
    BY <1>4, <1>6 DEF PagesOfSize, IsPage, rest, size
  <1> QED
    BY <1>7, <1>8

-----------------------------------------------------------------------------
(***************************************************************************)
(* Walks                                                                   *)
(***************************************************************************)

\* The keys given are those up to the last one: none of them twice, and all of
\* those that stayed.
WalkInv ==
    /\ PagingTypeOK
    /\ \A k \in Key : answers[k] <= 1
    /\ \A k \in Key : answers[k] = 1 => k <= last
    /\ \A k \in steady : k <= last => answers[k] = 1
    /\ finished => \A k \in steady : k <= last

LEMMA PageSizePositive ==
    ASSUME PagingAssumption, NEW limit \in LimitInput
    PROVE  PageSize(limit) \in Nat \ {0}
  BY LimitAssumption DEF PageSize, PagingAssumption

\* An empty page means that nothing is left.
LEMMA EmptyPageIsTheEnd ==
    ASSUME PagingAssumption, NEW start, NEW limit \in LimitInput, IsPage({}, entries, start, limit)
    PROVE  Rest(entries, start) = {}
  <1>1. Cardinality({}) = 0
    BY FS_EmptySet
  <1>2. PageSize(limit) > 0
    BY PageSizePositive
  <1> QED
    BY <1>1, <1>2 DEF IsPage

LEMMA WalkInit == ASSUME PagingAssumption, Init PROVE WalkInv
  <1> USE DEF PagingAssumption
  <1>0. /\ entries \subseteq Key
        /\ last \in Nat
        /\ answers \in [Key -> 0 .. 2]
        /\ steady \subseteq entries
    BY DEF Init
  <1>1. PagingTypeOK
    BY <1>0, Zenon DEF Init, PagingTypeOK
  <1>2. \A k \in Key : k \in Nat /\ k > 0 /\ answers[k] = 0
    BY DEF Init
  <1> QED
    BY <1>1, <1>2 DEF Init, WalkInv

LEMMA ChangeKeepsWalk == ASSUME WalkInv, Change PROVE WalkInv'
  BY DEF WalkInv, PagingTypeOK, Change

LEMMA PageKeepsWalk == ASSUME PagingAssumption, WalkInv, NextPage PROVE WalkInv'
  <1> USE DEF WalkInv, PagingTypeOK
  <1>0. Key \subseteq Nat \ {0}
    BY DEF PagingAssumption
  <1>1. PICK limit \in LimitInput, page \in SUBSET entries :
            IsPage(page, entries, last, limit) /\ TakePage(page)
    BY DEF NextPage
  <1>2. /\ entries' = entries /\ steady' = steady
        /\ finished' = (page = {})
        /\ answers' = [k \in Key |-> IF k \in page /\ answers[k] < 2
                                     THEN answers[k] + 1 ELSE answers[k]]
    BY <1>1 DEF NextPage, TakePage
  <1>3. \A k \in page : k \in entries /\ k > last
    BY <1>1 DEF IsPage, Rest
  <1>4. \A k \in page : k \in Key /\ k \in Nat /\ answers[k] = 0
    <2> TAKE k \in page
    <2>1. k \in Key /\ k \in Nat /\ k > last
      BY <1>3, <1>0
    <2>2. answers[k] # 1 /\ answers[k] <= 1 /\ answers[k] \in 0 .. 2
      BY <2>1
    <2> QED
      BY <2>1, <2>2
  <1>5. \A k \in Key : answers'[k] = IF k \in page THEN 1 ELSE answers[k]
    BY <1>2, <1>4
  <1>6. CASE page = {}
    <2>1. last' = last
      BY <1>1, <1>6 DEF TakePage
    <2>2. Rest(entries, last) = {}
      BY <1>1, <1>6, EmptyPageIsTheEnd
    <2>3. \A k \in steady : k <= last
      <3> TAKE k \in steady
      <3>1. k \in entries /\ k \in Nat /\ ~(k > last)
        BY <2>2, <1>0 DEF Rest
      <3> QED
        BY <3>1
    <2>4. answers' = answers
      BY <1>2, <1>6
    <2> QED
      BY <1>2, <1>6, <2>1, <2>3, <2>4
  <1>7. CASE page # {}
    <2>1. last' \in page /\ \A other \in page : other <= last'
      BY <1>1, <1>7 DEF TakePage
    <2>2. last' \in Nat /\ last' > last
      BY <1>3, <1>4, <2>1
    <2>3. ~finished'
      BY <1>2, <1>7
    <2>4. PagingTypeOK'
      BY <1>2, <1>5, <2>2
    <2>5. \A k \in Key : answers'[k] <= 1
      BY <1>5
    <2>6. ASSUME NEW k \in Key, answers'[k] = 1 PROVE k <= last'
      <3>1. CASE k \in page
        BY <2>1, <3>1
      <3>2. CASE k \notin page
        <4>1. k \in Nat /\ k <= last
          BY <1>5, <2>6, <3>2, <1>0
        <4> QED
          BY <2>2, <4>1
      <3> QED
        BY <3>1, <3>2
    <2>7. ASSUME NEW k \in steady, k <= last' PROVE answers'[k] = 1
      <3>1. k \in entries /\ k \in Key /\ k \in Nat
        BY <1>0
      <3>2. CASE k <= last
        BY <1>5, <3>1, <3>2
      <3>3. CASE k > last
        <4>1. k \in Rest(entries, last)
          BY <3>1, <3>3 DEF Rest
        <4>2. k \in page
          BY <1>1, <2>1, <2>2, <2>7, <3>1, <4>1 DEF IsPage
        <4> QED
          BY <1>5, <3>1, <4>2
      <3> QED
        BY <3>1, <3>2, <3>3
    <2> QED
      BY <1>2, <2>3, <2>4, <2>5, <2>6, <2>7
  <1> QED
    BY <1>6, <1>7

\* A client that has come to the end was given every entry that was there all
\* along, and no key more than once.
THEOREM WalkAlwaysComplete ==
    ASSUME PagingAssumption
    PROVE  Spec => []WalkComplete
  <1>1. Init => WalkInv
    BY WalkInit
  <1>2. WalkInv /\ [Next]_pagingVars => WalkInv'
    <2>1. WalkInv /\ UNCHANGED pagingVars => WalkInv'
      BY DEF WalkInv, PagingTypeOK, pagingVars, clientVars
    <2> QED
      BY <2>1, ChangeKeepsWalk, PageKeepsWalk DEF Next
  <1>3. WalkInv => WalkComplete
    BY DEF WalkInv, WalkComplete
  <1> QED
    BY <1>1, <1>2, <1>3, PTL DEF Spec
=============================================================================
