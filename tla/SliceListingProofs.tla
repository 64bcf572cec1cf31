------------------------- MODULE SliceListingProofs -------------------------
(***************************************************************************)
(* Proofs about SliceListing, for pages of any size, lists of any length   *)
(* and any changes of them between the pages of a listing.                 *)
(***************************************************************************)
EXTENDS SliceListing, SetInduction, SequenceTheorems

-----------------------------------------------------------------------------
(* The inductive invariant.  A cut is a place between two slices, or at an *)
(* end of the list, given by the number of slices in front of it.          *)

Cuts(list) == 0..Len(list)

Behind(list, q) == {list[k].id : k \in {j \in DOMAIN list : j > q}}

InFront(q) == MatchingUpTo(slices, call.request, q)

\* Of the slices at the front, as many as the offset has passed: what has
\* matched all the time is listed, but for one for each that left; and as many
\* as there are have been listed, and are not to be met again, but for one for
\* each that entered.
CutInv(q) ==
  Cardinality(InFront(q)) <= call.offset =>
    /\ Cardinality((always \cap InFront(q)) \ IDsOf(call.out)) <= left
    /\ Cardinality(InFront(q)) <= entered + Cardinality(IDsOf(call.out) \ Behind(slices, q))

ListingInv ==
  call.pc \in {"token", "request"} =>
    /\ \A q \in Cuts(slices) : CutInv(q)
    /\ Len(call.out) - Cardinality(IDsOf(call.out)) <= entered

AlwaysInv == always \subseteq Matching(slices, call.request)

IndInv == TypeOK /\ AlwaysInv /\ ListingInv /\ MissedAtMostLeft /\ TwiceAtMostEntered

-----------------------------------------------------------------------------
(* Lists, and what matches up to a cut.                                    *)

Distinct(list) == \A k, j \in DOMAIN list : list[k].id = list[j].id => k = j

\* A list has at most as many IDs as slices.
LEMMA IDsFinite ==
  ASSUME NEW S, NEW list \in Seq(S)
  PROVE  /\ IsFiniteSet(IDsOf(list)) /\ Cardinality(IDsOf(list)) \in Nat
         /\ Cardinality(IDsOf(list)) <= Len(list)
<1> DEFINE f == [k \in 1..Len(list) |-> list[k].id]
<1>1. Len(list) \in Nat /\ DOMAIN list = 1..Len(list)
  BY LenProperties
<1>2. f \in Surjection(1..Len(list), IDsOf(list))
  BY <1>1 DEF IDsOf, Surjection
<1>3. IsFiniteSet(1..Len(list)) /\ Cardinality(1..Len(list)) = Len(list)
  BY <1>1, FS_Interval
<1>4. QED
  BY <1>2, <1>3, FS_Surjection, FS_CardinalityType

\* Nothing matches in front of the list, and finitely much in front of any cut.
LEMMA MatchingFinite ==
  ASSUME NEW S, NEW list \in Seq(S), NEW r
  PROVE  /\ MatchingUpTo(list, r, 0) = {} /\ Cardinality(MatchingUpTo(list, r, 0)) = 0
         /\ \A q \in Cuts(list) : /\ IsFiniteSet(MatchingUpTo(list, r, q))
                                  /\ Cardinality(MatchingUpTo(list, r, q)) \in Nat
<1>1. DOMAIN list = 1..Len(list) /\ Len(list) \in Nat
  BY LenProperties
<1>2. MatchingUpTo(list, r, 0) = {}
  BY <1>1 DEF MatchingUpTo
<1>3. ASSUME NEW q \in Cuts(list)
      PROVE  IsFiniteSet(MatchingUpTo(list, r, q)) /\ Cardinality(MatchingUpTo(list, r, q)) \in Nat
  <2>1. MatchingUpTo(list, r, q) \subseteq IDsOf(list)
    BY DEF MatchingUpTo, IDsOf
  <2>2. QED
    BY <2>1, IDsFinite, FS_Subset, FS_CardinalityType
<1>4. QED
  BY <1>2, <1>3, FS_EmptySet

\* From one cut to the next it is one more, or the same.
LEMMA MatchingNext ==
  ASSUME NEW S, NEW list \in Seq(S), Distinct(list), NEW r, NEW k \in 1..Len(list)
  PROVE  IF Matches(r, list[k])
         THEN /\ list[k].id \notin MatchingUpTo(list, r, k - 1)
              /\ MatchingUpTo(list, r, k) = MatchingUpTo(list, r, k - 1) \cup {list[k].id}
              /\ Cardinality(MatchingUpTo(list, r, k)) = Cardinality(MatchingUpTo(list, r, k - 1)) + 1
         ELSE MatchingUpTo(list, r, k) = MatchingUpTo(list, r, k - 1)
<1>1. DOMAIN list = 1..Len(list) /\ Len(list) \in Nat /\ k - 1 \in Cuts(list)
  BY LenProperties DEF Cuts
<1>2. CASE Matches(r, list[k])
  <2>1. list[k].id \notin MatchingUpTo(list, r, k - 1)
    BY <1>1 DEF Distinct, MatchingUpTo
  <2>2. {j \in DOMAIN list : j <= k /\ Matches(r, list[j])}
          = {j \in DOMAIN list : j <= k - 1 /\ Matches(r, list[j])} \cup {k}
    BY <1>1, <1>2
  <2>3. MatchingUpTo(list, r, k) = MatchingUpTo(list, r, k - 1) \cup {list[k].id}
    BY <2>2 DEF MatchingUpTo
  <2>4. IsFiniteSet(MatchingUpTo(list, r, k - 1))
    BY <1>1, MatchingFinite
  <2>5. QED
    BY <1>2, <2>1, <2>3, <2>4, FS_AddElement
<1>3. CASE ~Matches(r, list[k])
  <2>1. {j \in DOMAIN list : j <= k /\ Matches(r, list[j])}
          = {j \in DOMAIN list : j <= k - 1 /\ Matches(r, list[j])}
    BY <1>1, <1>3
  <2>2. QED
    BY <1>3, <2>1 DEF MatchingUpTo
<1>4. QED
  BY <1>2, <1>3

\* A later cut has more in front of it and less behind.
LEMMA CutsAreNested ==
  ASSUME NEW S, NEW list \in Seq(S), Distinct(list), NEW r,
         NEW q \in Cuts(list), NEW p \in 0..q
  PROVE  /\ p \in Cuts(list)
         /\ MatchingUpTo(list, r, p) \subseteq MatchingUpTo(list, r, q)
         /\ Cardinality(MatchingUpTo(list, r, p)) <= Cardinality(MatchingUpTo(list, r, q))
         /\ Behind(list, q) \subseteq Behind(list, p)
<1>1. Len(list) \in Nat /\ DOMAIN list = 1..Len(list)
  BY LenProperties
<1>2. p \in Cuts(list)
  BY <1>1 DEF Cuts
<1>3. MatchingUpTo(list, r, p) \subseteq MatchingUpTo(list, r, q)
  BY <1>1, <1>2 DEF MatchingUpTo, Cuts
<1>4. Behind(list, q) \subseteq Behind(list, p)
  BY <1>1, <1>2 DEF Behind, Cuts
<1>5. QED
  BY <1>2, <1>3, <1>4, MatchingFinite, FS_Subset

\* There is an n-th slice that matches.
LEMMA NthMatches ==
  ASSUME NEW S, NEW list \in Seq(S), Distinct(list), NEW r,
         NEW q \in Cuts(list), NEW n \in 1..Cardinality(MatchingUpTo(list, r, q))
  PROVE  \E k \in 1..q : /\ Matches(r, list[k])
                         /\ Cardinality(MatchingUpTo(list, r, k - 1)) = n - 1
<1> DEFINE C(p) == Cardinality(MatchingUpTo(list, r, p))
           Has(p) == n <= C(p) => \E k \in 1..p : Matches(r, list[k]) /\ C(k - 1) = n - 1
           T == {p \in Cuts(list) : Has(p)}
<1>1. Len(list) \in Nat
  BY LenProperties
<1>2. C(0) = 0 /\ \A p \in Cuts(list) : C(p) \in Nat
  BY MatchingFinite
<1>3. n \in Nat \ {0}
  BY <1>2
<1>4. 0 \in T
  BY <1>1, <1>2, <1>3 DEF Cuts
<1>5. ASSUME NEW k \in 1..Len(list), k - 1 \in T PROVE k \in T
  <2> SUFFICES ASSUME n <= C(k) PROVE \E j \in 1..k : Matches(r, list[j]) /\ C(j - 1) = n - 1
    BY <1>1 DEF Cuts
  <2>1. k \in Cuts(list) /\ k - 1 \in Cuts(list)
    BY <1>1 DEF Cuts
  <2>2. CASE n <= C(k - 1)
    <3>1. PICK j \in 1..(k - 1) : Matches(r, list[j]) /\ C(j - 1) = n - 1
      BY <1>5, <2>2
    <3>2. QED
      BY <3>1
  <2>3. CASE ~(n <= C(k - 1))
    <3>1. Matches(r, list[k]) /\ C(k) = C(k - 1) + 1
      BY <2>3, MatchingNext
    <3>2. C(k - 1) = n - 1
      BY <1>2, <1>3, <2>1, <2>3, <3>1
    <3>3. QED
      BY <3>1, <3>2
  <2>4. QED
    BY <2>2, <2>3
<1>6. \A p \in 0..Len(list) : p \in T
  <2> HIDE DEF T
  <2> QED BY <1>1, <1>4, <1>5, IntervalInduction
<1>7. Has(q)
  BY <1>6 DEF Cuts
<1>8. n <= C(q)
  BY <1>2
<1>9. QED
  BY <1>7, <1>8

\* In front of a cut there is one with any smaller number of what matches.
LEMMA CutWith ==
  ASSUME NEW S, NEW list \in Seq(S), Distinct(list), NEW r,
         NEW q \in Cuts(list), NEW n \in 0..Cardinality(MatchingUpTo(list, r, q))
  PROVE  \E p \in 0..q : p \in Cuts(list) /\ Cardinality(MatchingUpTo(list, r, p)) = n
<1> DEFINE C(p) == Cardinality(MatchingUpTo(list, r, p))
<1>1. Len(list) \in Nat /\ C(q) \in Nat /\ q \in 0..Len(list)
  BY LenProperties, MatchingFinite DEF Cuts
<1>2. CASE n = C(q)
  BY <1>1, <1>2
<1>3. CASE n # C(q)
  <2>1. n + 1 \in 1..C(q)
    BY <1>1, <1>3
  <2>2. PICK k \in 1..q : C(k - 1) = (n + 1) - 1
    BY <2>1, NthMatches
  <2>3. k - 1 \in 0..q /\ k - 1 \in Cuts(list) /\ C(k - 1) = n
    BY <1>1, <2>2 DEF Cuts
  <2>4. QED
    BY <2>3
<1>4. QED
  BY <1>2, <1>3

-----------------------------------------------------------------------------
(* A page.                                                                 *)

\* A page holds what matches between the cuts with the offset, and with the
\* offset and its own length in front; it is short only when nothing is left.
LEMMA PageIs ==
  ASSUME TypeOK
  PROVE  LET C(q) == Cardinality(InFront(q))
         IN  /\ Page \in Seq(Slice) /\ Len(Page) \in Nat
             /\ \A p, q \in Cuts(slices) :
                  C(p) = call.offset /\ C(q) <= call.offset + PageSize
                    => InFront(q) \ InFront(p) \subseteq IDsOf(Page)
             /\ Len(Page) < PageSize => C(Len(slices)) <= call.offset + PageSize
             /\ Len(Page) > 0 => \E q \in Cuts(slices) : C(q) = call.offset + Len(Page)
             /\ Len(Page) <= PageSize
<1> DEFINE C(q) == Cardinality(InFront(q))
           places == Places(slices, call.request, call.offset, PageSize)
           total == C(Len(slices))
           hi == IF call.offset + PageSize <= total THEN call.offset + PageSize ELSE total
           n == Cardinality(places)
<1>0. slices \in Seq(Slice) /\ Distinct(slices) /\ call.offset \in Nat
  BY DEF TypeOK, Distinct
<1>1. Len(slices) \in Nat /\ DOMAIN slices = 1..Len(slices) /\ Len(slices) \in Cuts(slices)
  BY <1>0, LenProperties DEF Cuts
<1>2. PageSize \in Nat \ {0}
  BY SizesAssumption
<1>3. \A q \in Cuts(slices) : C(q) \in Nat /\ IsFiniteSet(InFront(q))
  BY <1>0, MatchingFinite DEF InFront
<1>4. total \in Nat /\ hi \in Nat
  BY <1>0, <1>1, <1>2, <1>3
<1>5. \A k \in 1..Len(slices) : k \in Cuts(slices) /\ k - 1 \in Cuts(slices)
  BY <1>1 DEF Cuts
<1>6. \A k \in 1..Len(slices) : Matches(call.request, slices[k]) => C(k) = C(k - 1) + 1
  BY <1>0, MatchingNext DEF InFront
<1>7. \A q \in Cuts(slices) : \A p \in 0..q : C(p) <= C(q)
  BY <1>0, CutsAreNested DEF InFront
<1>8. \A k \in places : /\ k \in 1..Len(slices) /\ Matches(call.request, slices[k])
                        /\ C(k - 1) \in call.offset..(hi - 1)
  <2> SUFFICES ASSUME NEW k \in places PROVE k \in 1..Len(slices) /\ Matches(call.request, slices[k])
                                             /\ C(k - 1) \in call.offset..(hi - 1)
    OBVIOUS
  <2>1. k \in 1..Len(slices) /\ Matches(call.request, slices[k])
        /\ C(k - 1) \in call.offset..(call.offset + PageSize - 1)
    BY <1>1 DEF Places, InFront
  <2>2. C(k) = C(k - 1) + 1 /\ C(k) <= total
    BY <1>1, <1>6, <1>7, <2>1 DEF Cuts
  <2>3. QED
    BY <1>0, <1>2, <1>3, <1>4, <1>5, <2>1, <2>2
<1>9. \A m \in (call.offset + 1)..hi :
        \E k \in places : C(k - 1) = m - 1
  <2> SUFFICES ASSUME NEW m \in (call.offset + 1)..hi PROVE \E k \in places : C(k - 1) = m - 1
    OBVIOUS
  <2>1. m \in 1..total /\ m - 1 \in call.offset..(call.offset + PageSize - 1)
    BY <1>0, <1>2, <1>4
  <2>2. PICK k \in 1..Len(slices) : Matches(call.request, slices[k]) /\ C(k - 1) = m - 1
    BY <1>0, <1>1, <2>1, NthMatches DEF InFront
  <2>3. k \in places
    BY <1>1, <2>1, <2>2 DEF Places, InFront
  <2>4. QED
    BY <2>2, <2>3
<1>10. \A k, j \in places : C(k - 1) = C(j - 1) => k = j
  <2> SUFFICES ASSUME NEW k \in places, NEW j \in places, C(k - 1) = C(j - 1), k < j PROVE FALSE
    BY <1>8
  <2>1. C(k) = C(k - 1) + 1
    BY <1>6, <1>8
  <2>2. C(k) <= C(j - 1)
    <3>1. j - 1 \in Cuts(slices) /\ k \in 0..(j - 1)
      BY <1>5, <1>8
    <3>2. QED
      BY <1>7, <3>1
  <2>3. C(k - 1) \in Nat
    BY <1>3, <1>5, <1>8
  <2>4. QED
    BY <2>1, <2>2, <2>3
<1>11. IsFiniteSet(places) /\ n \in Nat /\ n = IF call.offset < hi THEN hi - call.offset ELSE 0
  <2> DEFINE f == [k \in places |-> C(k - 1) + 1]
  <2>1. f \in [places -> (call.offset + 1)..hi]
    <3>1. \A k \in places : C(k - 1) + 1 \in (call.offset + 1)..hi
      BY <1>0, <1>4, <1>8
    <3>2. QED
      BY <3>1
  <2>2. f \in Bijection(places, (call.offset + 1)..hi)
    <3>1. \A k, j \in places : f[k] = f[j] => k = j
      <4>1. \A k \in places : C(k - 1) \in Nat
        BY <1>3, <1>5, <1>8
      <4>2. QED
        BY <1>10, <4>1
    <3>2. \A m \in (call.offset + 1)..hi : \E k \in places : f[k] = m
      <4> SUFFICES ASSUME NEW m \in (call.offset + 1)..hi PROVE \E k \in places : f[k] = m
        OBVIOUS
      <4>1. PICK k \in places : C(k - 1) = m - 1
        BY <1>9
      <4>2. f[k] = m
        BY <4>1
      <4>3. QED
        BY <4>2
    <3> HIDE DEF f
    <3>3. QED
      BY <2>1, <3>1, <3>2 DEF Bijection, Injection, Surjection, IsInjective
  <2>3. IsFiniteSet((call.offset + 1)..hi)
        /\ Cardinality((call.offset + 1)..hi) = IF call.offset < hi THEN hi - call.offset ELSE 0
    <3>1. call.offset + 1 \in Int /\ hi \in Int
      BY <1>0, <1>4
    <3> HIDE DEF hi
    <3>2. /\ IsFiniteSet((call.offset + 1)..hi)
          /\ Cardinality((call.offset + 1)..hi)
               = IF call.offset + 1 > hi THEN 0 ELSE hi - (call.offset + 1) + 1
      BY <3>1, FS_Interval
    <3>3. QED
      BY <1>0, <3>1, <3>2
  <2>4. IsFiniteSet(places)
    <3>1. places \subseteq 1..Len(slices)
      BY <1>8
    <3>2. IsFiniteSet(1..Len(slices))
      BY <1>1, FS_Interval
    <3>3. QED
      BY <3>1, <3>2, FS_Subset
  <2>5. ExistsBijection(places, (call.offset + 1)..hi)
    BY <2>2 DEF ExistsBijection
  <2>6. n = Cardinality((call.offset + 1)..hi)
    BY <2>4, <2>5, FS_Bijection
  <2>7. QED
    BY <2>3, <2>4, <2>6, FS_CardinalityType
<1>12. ASSUME NEW i \in 1..n
       PROVE  \E k \in places : C(k - 1) = call.offset + i - 1
  <2>1. call.offset + i \in (call.offset + 1)..hi
    BY <1>0, <1>4, <1>11
  <2>2. PICK k \in places : C(k - 1) = (call.offset + i) - 1
    BY <1>9, <2>1
  <2>3. (call.offset + i) - 1 = call.offset + i - 1
    BY <1>0, <1>11
  <2>4. QED
    BY <2>2, <2>3
<1> DEFINE At(i) == CHOOSE k \in places : C(k - 1) = call.offset + i - 1
<1>13. \A i \in 1..n : At(i) \in places /\ C(At(i) - 1) = call.offset + i - 1
  BY <1>12
<1>14. Page = [i \in 1..n |-> slices[At(i)]]
  BY DEF Page, InFront
<1>15. Page \in Seq(Slice) /\ Len(Page) = n /\ DOMAIN Page = 1..n
  <2>1. \A i \in 1..n : slices[At(i)] \in Slice
    BY <1>0, <1>8, <1>13, ElementOfSeq
  <2> HIDE DEF At, n
  <2>2. QED
    BY <1>11, <1>14, <2>1
<1>16. \A k \in places : slices[k].id \in IDsOf(Page)
  <2> SUFFICES ASSUME NEW k \in places PROVE slices[k].id \in IDsOf(Page)
    OBVIOUS
  <2> DEFINE i == C(k - 1) - call.offset + 1
  <2>1. i \in 1..n /\ C(k - 1) = call.offset + i - 1
    BY <1>0, <1>4, <1>8, <1>11
  <2>2. At(i) = k
    BY <1>10, <1>13, <2>1
  <2>3. Page[i] = slices[k]
    BY <1>14, <2>1, <2>2
  <2>4. QED
    BY <1>15, <2>1, <2>3 DEF IDsOf
<1>17. ASSUME NEW p \in Cuts(slices), NEW q \in Cuts(slices),
              C(p) = call.offset, C(q) <= call.offset + PageSize
       PROVE  InFront(q) \ InFront(p) \subseteq IDsOf(Page)
  <2> SUFFICES ASSUME NEW k \in 1..Len(slices), k <= q, Matches(call.request, slices[k]),
                      slices[k].id \notin InFront(p)
               PROVE  slices[k].id \in IDsOf(Page)
    BY <1>1 DEF InFront, MatchingUpTo
  <2>1. p < k
    BY <1>1, <1>17 DEF InFront, MatchingUpTo, Cuts
  <2>2. p \in 0..(k - 1) /\ k \in 0..q
    BY <2>1, <1>1 DEF Cuts
  <2>3. C(p) <= C(k - 1) /\ C(k) <= C(q) /\ C(k) = C(k - 1) + 1
    BY <1>5, <1>6, <1>7, <2>2
  <2>4. C(k - 1) \in call.offset..(call.offset + PageSize - 1)
    BY <1>0, <1>2, <1>3, <1>5, <1>17, <2>3
  <2>5. k \in places
    BY <1>1, <2>4 DEF Places, InFront
  <2>6. QED
    BY <1>16, <2>5
<1>18. n > 0 => \E q \in Cuts(slices) : C(q) = call.offset + n
  <2> SUFFICES ASSUME n > 0 PROVE \E q \in Cuts(slices) : C(q) = call.offset + n
    OBVIOUS
  <2>1. call.offset + n = hi /\ hi \in 0..total
    BY <1>0, <1>2, <1>4, <1>11
  <2>2. QED
    BY <1>0, <1>1, <2>1, CutWith DEF InFront
<1>19. n <= PageSize /\ (n < PageSize => total <= call.offset + PageSize)
  BY <1>0, <1>2, <1>4, <1>11
<1> HIDE DEF C, n, places, total, hi
<1>20. QED
  BY <1>11, <1>15, <1>17, <1>18, <1>19 DEF C, total

-----------------------------------------------------------------------------
(* The orchestrator's changes.                                             *)

\* A change from list to new is one of the slice x, if any cut of the new list
\* comes from one of the old: what is in front of both is the same but for x,
\* which only comes in front or goes when it begins or stops to match; and what
\* has been listed is not behind it now when it was not before.
Changes(list, new, x, r, listed) ==
  \A q \in Cuts(new) : \E p \in Cuts(list) :
    /\ MatchingUpTo(new, r, q) \ {x} = MatchingUpTo(list, r, p) \ {x}
    /\ x \in MatchingUpTo(new, r, q) \ MatchingUpTo(list, r, p) => x \notin Matching(list, r)
    /\ x \in MatchingUpTo(list, r, p) \ MatchingUpTo(new, r, q) => x \notin Matching(new, r)
    /\ listed \cap Behind(new, q) \subseteq Behind(list, p)

\* A new slice that has not been listed, wherever it comes.
LEMMA InsertChanges ==
  ASSUME NEW S, NEW list \in Seq(S), Distinct(list), NEW k \in 1..(Len(list) + 1),
         NEW e \in S, e.id \notin IDsOf(list), NEW r, NEW listed, e.id \notin listed
  PROVE  LET new == InsertAt(list, k, e)
         IN  new \in Seq(S) /\ Distinct(new) /\ Changes(list, new, e.id, r, listed)
<1> DEFINE new == InsertAt(list, k, e)
<1>1. DOMAIN list = 1..Len(list) /\ Len(list) \in Nat
  BY LenProperties
<1>2. /\ new \in Seq(S) /\ Len(new) = Len(list) + 1
      /\ \A j \in 1..Len(new) : new[j] = IF j < k THEN list[j] ELSE IF j = k THEN e ELSE list[j - 1]
  <2> DEFINE front == SubSeq(list, 1, k - 1)
             rest  == SubSeq(list, k, Len(list))
  <2>1. /\ front \in Seq(S) /\ Len(front) = k - 1
        /\ \A j \in 1..(k - 1) : front[j] = list[j]
    BY <1>1
  <2>2. /\ rest \in Seq(S) /\ Len(rest) = Len(list) - k + 1
        /\ \A j \in 1..(Len(list) - k + 1) : rest[j] = list[j + k - 1]
    BY <1>1
  <2>3. <<e>> \in Seq(S) /\ Len(<<e>>) = 1 /\ <<e>>[1] = e
    OBVIOUS
  <2>4. new = front \o <<e>> \o rest
    BY DEF InsertAt
  <2> HIDE DEF front, rest, new
  <2>5. /\ front \o <<e>> \in Seq(S) /\ Len(front \o <<e>>) = k
        /\ \A j \in 1..k : (front \o <<e>>)[j] = IF j < k THEN list[j] ELSE e
    BY <1>1, <2>1, <2>3
  <2>6. /\ new \in Seq(S) /\ Len(new) = Len(list) + 1
        /\ \A j \in 1..Len(new) : new[j] = IF j <= k THEN (front \o <<e>>)[j] ELSE rest[j - k]
    <3> DEFINE both == front \o <<e>>
    <3> HIDE DEF both
    <3>1. /\ both \in Seq(S) /\ Len(both) = k
          /\ new = both \o rest
      BY <2>4, <2>5 DEF both
    <3>2. /\ new \in Seq(S) /\ Len(new) = Len(both) + Len(rest)
          /\ \A j \in 1..(Len(both) + Len(rest)) :
               new[j] = IF j <= Len(both) THEN both[j] ELSE rest[j - Len(both)]
      BY <2>2, <3>1, ConcatProperties
    <3>3. QED
      BY <1>1, <2>2, <3>1, <3>2 DEF both
  <2>7. ASSUME NEW j \in 1..Len(new)
        PROVE  new[j] = IF j < k THEN list[j] ELSE IF j = k THEN e ELSE list[j - 1]
    <3>1. CASE j <= k
      BY <2>5, <2>6, <3>1
    <3>2. CASE j > k
      <4>1. j - k \in 1..(Len(list) - k + 1) /\ j - k + k - 1 = j - 1
        BY <1>1, <2>6, <3>2
      <4>2. QED
        BY <1>1, <2>2, <2>6, <3>2, <4>1
    <3>3. QED
      BY <3>1, <3>2
  <2>8. QED
    BY <2>6, <2>7
<1> HIDE DEF new
<1>3. DOMAIN new = 1..Len(new)
  BY <1>2, LenProperties
<1>4. Distinct(new)
  <2> DEFINE from(j) == IF j < k THEN j ELSE j - 1
  <2>1. new[k] = e
    BY <1>1, <1>2
  <2>2. \A j \in 1..Len(new) : j # k => from(j) \in 1..Len(list) /\ new[j] = list[from(j)]
    BY <1>1, <1>2
  <2>3. \A j \in 1..Len(new) : j # k => new[j].id # e.id
    BY <1>1, <2>2 DEF IDsOf
  <2>4. \A j, i \in 1..Len(new) : j # k /\ i # k /\ new[j].id = new[i].id => from(j) = from(i)
    BY <1>1, <2>2 DEF Distinct
  <2>5. QED
    BY <1>1, <1>2, <1>3, <2>1, <2>3, <2>4 DEF Distinct
<1>5. ASSUME NEW q \in Cuts(new)
      PROVE  \E p \in Cuts(list) :
               /\ MatchingUpTo(new, r, q) \ {e.id} = MatchingUpTo(list, r, p) \ {e.id}
               /\ MatchingUpTo(list, r, p) \subseteq MatchingUpTo(new, r, q)
               /\ listed \cap Behind(new, q) \subseteq Behind(list, p)
  <2> DEFINE p == IF q < k THEN q ELSE q - 1
  <2>1. p \in Cuts(list) /\ p \in Nat /\ q \in Nat
    BY <1>1, <1>2 DEF Cuts
  <2>2. MatchingUpTo(list, r, p) \subseteq MatchingUpTo(new, r, q)
    <3> SUFFICES ASSUME NEW j \in 1..Len(list), j <= p, Matches(r, list[j])
                 PROVE  list[j].id \in MatchingUpTo(new, r, q)
      BY <1>1 DEF MatchingUpTo
    <3> DEFINE i == IF j < k THEN j ELSE j + 1
    <3>1. i \in 1..Len(new) /\ i <= q /\ new[i] = list[j]
      BY <1>1, <1>2, <2>1
    <3>2. QED
      BY <1>3, <3>1 DEF MatchingUpTo
  <2>3. MatchingUpTo(new, r, q) \ {e.id} \subseteq MatchingUpTo(list, r, p)
    <3> SUFFICES ASSUME NEW i \in 1..Len(new), i <= q, Matches(r, new[i]), new[i].id # e.id
                 PROVE  new[i].id \in MatchingUpTo(list, r, p)
      BY <1>3 DEF MatchingUpTo
    <3> DEFINE j == IF i < k THEN i ELSE i - 1
    <3>1. j \in 1..Len(list) /\ j <= p /\ new[i] = list[j]
      BY <1>1, <1>2, <2>1
    <3>2. QED
      BY <1>1, <3>1 DEF MatchingUpTo
  <2>4. listed \cap Behind(new, q) \subseteq Behind(list, p)
    <3> SUFFICES ASSUME NEW i \in 1..Len(new), i > q, new[i].id \in listed
                 PROVE  new[i].id \in Behind(list, p)
      BY <1>3 DEF Behind
    <3> DEFINE j == IF i < k THEN i ELSE i - 1
    <3>1. j \in 1..Len(list) /\ j > p /\ new[i] = list[j]
      BY <1>1, <1>2, <2>1
    <3>2. QED
      BY <1>1, <3>1 DEF Behind
  <2> HIDE DEF p
  <2>5. QED
    BY <2>1, <2>2, <2>3, <2>4
<1>6. e.id \notin Matching(list, r)
  BY DEF Matching, MatchingUpTo, IDsOf
<1>7. Changes(list, new, e.id, r, listed)
  <2> SUFFICES ASSUME NEW q \in Cuts(new)
               PROVE  \E p \in Cuts(list) :
                        /\ MatchingUpTo(new, r, q) \ {e.id} = MatchingUpTo(list, r, p) \ {e.id}
                        /\ e.id \in MatchingUpTo(list, r, p) \ MatchingUpTo(new, r, q)
                             => e.id \notin Matching(new, r)
                        /\ listed \cap Behind(new, q) \subseteq Behind(list, p)
    BY <1>6 DEF Changes
  <2>1. QED
    BY <1>5
<1>8. QED
  BY <1>2, <1>4, <1>7 DEF new

\* One that goes.
LEMMA RemoveChanges ==
  ASSUME NEW S, NEW list \in Seq(S), Distinct(list), NEW k \in 1..Len(list), NEW r, NEW listed
  PROVE  LET new == RemoveAt(list, k)
         IN  new \in Seq(S) /\ Distinct(new) /\ Changes(list, new, list[k].id, r, listed)
<1> DEFINE new == RemoveAt(list, k)
           x == list[k].id
<1>1. DOMAIN list = 1..Len(list) /\ Len(list) \in Nat
  BY LenProperties
<1>2. /\ new \in Seq(S) /\ Len(new) = Len(list) - 1
      /\ \A j \in 1..Len(new) : new[j] = IF j < k THEN list[j] ELSE list[j + 1]
  <2> DEFINE front == SubSeq(list, 1, k - 1)
             rest  == SubSeq(list, k + 1, Len(list))
  <2>1. /\ front \in Seq(S) /\ Len(front) = k - 1
        /\ \A j \in 1..(k - 1) : front[j] = list[j]
    BY <1>1
  <2>2. /\ rest \in Seq(S) /\ Len(rest) = Len(list) - k
        /\ \A j \in 1..(Len(list) - k) : rest[j] = list[j + k]
    <3>1. \A j \in (k + 1)..Len(list) : list[j] \in S
      BY <1>1, ElementOfSeq
    <3>2. /\ rest \in Seq(S)
          /\ Len(rest) = IF k + 1 <= Len(list) THEN Len(list) - (k + 1) + 1 ELSE 0
          /\ \A j \in 1..(Len(list) - (k + 1) + 1) : rest[j] = list[(k + 1) + j - 1]
      BY <1>1, <3>1, SubSeqProperties
    <3> HIDE DEF rest
    <3>3. Len(list) - (k + 1) + 1 = Len(list) - k /\ \A j \in Int : (k + 1) + j - 1 = j + k
      BY <1>1
    <3>4. Len(rest) = Len(list) - k
      <4>1. CASE k < Len(list)
        <5>1. k + 1 <= Len(list)
          BY <1>1, <4>1
        <5>2. QED
          BY <3>2, <3>3, <5>1
      <4>2. CASE k = Len(list)
        <5>1. ~(k + 1 <= Len(list)) /\ Len(list) - k = 0
          BY <1>1, <4>2
        <5>2. QED
          BY <3>2, <5>1
      <4>3. k < Len(list) \/ k = Len(list)
        <5>1. Len(list) \in Nat
          BY <1>1
        <5>2. k \in Nat /\ k <= Len(list)
          BY <5>1
        <5>3. QED
          BY <5>1, <5>2
      <4>4. QED
        BY <4>1, <4>2, <4>3
    <3>5. ASSUME NEW j \in 1..(Len(list) - k) PROVE rest[j] = list[j + k]
      <4>1. j \in 1..(Len(list) - (k + 1) + 1)
        BY <3>3
      <4>2. rest[j] = list[(k + 1) + j - 1]
        BY <3>2, <4>1
      <4>3. (k + 1) + j - 1 = j + k
        BY <1>1
      <4>4. QED
        BY <4>2, <4>3
    <3>6. QED
      BY <3>2, <3>4, <3>5
  <2>3. new = front \o rest
    BY DEF RemoveAt
  <2> HIDE DEF front, rest, new
  <2>4. /\ new \in Seq(S) /\ Len(new) = Len(list) - 1
        /\ \A j \in 1..Len(new) : new[j] = IF j <= k - 1 THEN front[j] ELSE rest[j - (k - 1)]
    <3>1. /\ new \in Seq(S) /\ Len(new) = Len(front) + Len(rest)
          /\ \A j \in 1..(Len(front) + Len(rest)) :
               new[j] = IF j <= Len(front) THEN front[j] ELSE rest[j - Len(front)]
      BY <2>1, <2>2, <2>3, ConcatProperties
    <3>2. QED
      BY <1>1, <2>1, <2>2, <3>1
  <2>5. ASSUME NEW j \in 1..Len(new)
        PROVE  new[j] = IF j < k THEN list[j] ELSE list[j + 1]
    <3>1. CASE j < k
      BY <2>1, <2>4, <3>1
    <3>2. CASE j >= k
      <4>1. j - (k - 1) \in 1..(Len(list) - k) /\ j - (k - 1) + k = j + 1
        BY <1>1, <2>4, <3>2
      <4>2. QED
        BY <1>1, <2>2, <2>4, <3>2, <4>1
    <3>3. QED
      BY <3>1, <3>2
  <2>6. QED
    BY <2>4, <2>5
<1> HIDE DEF new
<1>3. DOMAIN new = 1..Len(new)
  BY <1>2, LenProperties
<1> DEFINE from(j) == IF j < k THEN j ELSE j + 1
<1>f. /\ \A j \in 1..Len(new) : from(j) \in 1..Len(list) /\ from(j) # k /\ new[j] = list[from(j)]
      /\ \A j, i \in 1..Len(new) : from(j) = from(i) => j = i
  <2>1. k \in Nat /\ Len(new) \in Nat /\ Len(list) \in Nat /\ Len(new) = Len(list) - 1
    BY <1>1, <1>2
  <2>2. ASSUME NEW j \in 1..Len(new)
        PROVE  from(j) \in 1..Len(list) /\ from(j) # k /\ new[j] = list[from(j)]
    BY <1>2, <2>1
  <2>3. ASSUME NEW j \in 1..Len(new), NEW i \in 1..Len(new), from(j) = from(i) PROVE j = i
    BY <2>1, <2>3
  <2>4. QED
    BY <2>2, <2>3
<1> HIDE DEF from
<1>4. Distinct(new)
  <2> SUFFICES ASSUME NEW j \in 1..Len(new), NEW i \in 1..Len(new), new[j].id = new[i].id
               PROVE  j = i
    BY <1>3 DEF Distinct
  <2>1. from(j) \in DOMAIN list /\ from(i) \in DOMAIN list /\ list[from(j)].id = list[from(i)].id
    BY <1>1, <1>f
  <2>2. from(j) = from(i)
    BY <2>1 DEF Distinct
  <2>3. QED
    BY <1>f, <2>2
<1>5. ASSUME NEW j \in 1..Len(new) PROVE new[j].id # x
  <2>1. from(j) \in DOMAIN list /\ k \in DOMAIN list /\ from(j) # k /\ new[j] = list[from(j)]
    BY <1>1, <1>f
  <2>2. QED
    BY <2>1 DEF Distinct
<1>6. ASSUME NEW q \in Cuts(new)
      PROVE  \E p \in Cuts(list) :
               /\ MatchingUpTo(list, r, p) \ {x} \subseteq MatchingUpTo(new, r, q)
               /\ MatchingUpTo(new, r, q) \subseteq MatchingUpTo(list, r, p)
               /\ Behind(new, q) \subseteq Behind(list, p)
  <2> DEFINE p == IF q < k THEN q ELSE q + 1
  <2>1. p \in Cuts(list) /\ p \in Nat /\ q \in Nat
    BY <1>1, <1>2 DEF Cuts
  <2>2. MatchingUpTo(list, r, p) \ {x} \subseteq MatchingUpTo(new, r, q)
    <3> SUFFICES ASSUME NEW j \in 1..Len(list), j <= p, Matches(r, list[j]), list[j].id # x
                 PROVE  list[j].id \in MatchingUpTo(new, r, q)
      BY <1>1 DEF MatchingUpTo
    <3> DEFINE i == IF j < k THEN j ELSE j - 1
    <3>1. i \in 1..Len(new) /\ i <= q /\ new[i] = list[j]
      BY <1>1, <1>2, <2>1
    <3>2. QED
      BY <1>3, <3>1 DEF MatchingUpTo
  <2>3. MatchingUpTo(new, r, q) \subseteq MatchingUpTo(list, r, p)
    <3> SUFFICES ASSUME NEW i \in 1..Len(new), i <= q, Matches(r, new[i])
                 PROVE  new[i].id \in MatchingUpTo(list, r, p)
      BY <1>3 DEF MatchingUpTo
    <3> DEFINE j == IF i < k THEN i ELSE i + 1
    <3>1. j \in 1..Len(list) /\ j <= p /\ new[i] = list[j]
      BY <1>1, <1>2, <2>1
    <3>2. QED
      BY <1>1, <3>1 DEF MatchingUpTo
  <2>4. Behind(new, q) \subseteq Behind(list, p)
    <3> SUFFICES ASSUME NEW i \in 1..Len(new), i > q
                 PROVE  new[i].id \in Behind(list, p)
      BY <1>3 DEF Behind
    <3> DEFINE j == IF i < k THEN i ELSE i + 1
    <3>1. j \in 1..Len(list) /\ j > p /\ new[i] = list[j]
      BY <1>1, <1>2, <2>1
    <3>2. QED
      BY <1>1, <3>1 DEF Behind
  <2> HIDE DEF p
  <2>5. QED
    BY <2>1, <2>2, <2>3, <2>4
<1>7. x \notin Matching(new, r)
  BY <1>3, <1>5 DEF Matching, MatchingUpTo
<1>8. Changes(list, new, x, r, listed)
  <2> SUFFICES ASSUME NEW q \in Cuts(new)
               PROVE  \E p \in Cuts(list) :
                        /\ MatchingUpTo(new, r, q) \ {x} = MatchingUpTo(list, r, p) \ {x}
                        /\ x \in MatchingUpTo(new, r, q) \ MatchingUpTo(list, r, p)
                             => x \notin Matching(list, r)
                        /\ listed \cap Behind(new, q) \subseteq Behind(list, p)
    BY <1>7 DEF Changes
  <2> HIDE DEF x
  <2>1. QED
    BY <1>6
<1>9. QED
  BY <1>2, <1>4, <1>8 DEF new

\* One that stays where it is and changes.
LEMMA StateChanges ==
  ASSUME NEW S, NEW list \in Seq(S), Distinct(list), NEW k \in 1..Len(list),
         NEW e \in S, e.id = list[k].id, NEW r, NEW listed
  PROVE  LET new == [list EXCEPT ![k] = e]
         IN  new \in Seq(S) /\ Distinct(new) /\ Changes(list, new, e.id, r, listed)
<1> DEFINE new == [list EXCEPT ![k] = e]
<1>1. DOMAIN list = 1..Len(list) /\ Len(list) \in Nat
  BY LenProperties
<1>2. /\ new \in Seq(S) /\ Len(new) = Len(list) /\ DOMAIN new = 1..Len(list)
      /\ \A j \in 1..Len(list) : new[j] = IF j = k THEN e ELSE list[j]
  BY <1>1, ExceptSeq
<1> HIDE DEF new
<1>3. \A j \in 1..Len(list) : new[j].id = list[j].id
  BY <1>2
<1>4. Distinct(new)
  BY <1>1, <1>2, <1>3 DEF Distinct
<1>5. \A j \in 1..Len(list) : j # k => list[j].id # e.id
  BY <1>1 DEF Distinct
<1>6. ASSUME NEW q \in Cuts(new)
      PROVE  /\ q \in Cuts(list)
             /\ MatchingUpTo(new, r, q) \ {e.id} = MatchingUpTo(list, r, q) \ {e.id}
             /\ e.id \in MatchingUpTo(new, r, q) \ MatchingUpTo(list, r, q) => e.id \notin Matching(list, r)
             /\ e.id \in MatchingUpTo(list, r, q) \ MatchingUpTo(new, r, q) => e.id \notin Matching(new, r)
             /\ Behind(new, q) = Behind(list, q)
  <2>1. q \in Cuts(list) /\ q \in Nat
    BY <1>1, <1>2 DEF Cuts
  <2>2. MatchingUpTo(new, r, q) \ {e.id} = MatchingUpTo(list, r, q) \ {e.id}
    BY <1>1, <1>2, <1>3 DEF MatchingUpTo
  <2>3. /\ e.id \in MatchingUpTo(list, r, q) <=> k <= q /\ Matches(r, list[k])
        /\ e.id \in MatchingUpTo(new, r, q) <=> k <= q /\ Matches(r, e)
        /\ e.id \in Matching(list, r) <=> Matches(r, list[k])
        /\ e.id \in Matching(new, r) <=> Matches(r, e)
    BY <1>1, <1>2, <1>3, <1>5 DEF MatchingUpTo, Matching
  <2>4. Behind(new, q) = Behind(list, q)
    BY <1>1, <1>2, <1>3 DEF Behind
  <2>5. QED
    BY <2>1, <2>2, <2>3, <2>4
<1>7. Changes(list, new, e.id, r, listed)
  BY <1>6 DEF Changes
<1>8. QED
  BY <1>2, <1>4, <1>7 DEF new

\* What matches in front of a cut with at most n has been passed by an offset of n.
LEMMA FrontIsPassed ==
  ASSUME NEW S, NEW list \in Seq(S), Distinct(list), NEW r, NEW n \in Nat,
         NEW q \in Cuts(list), Cardinality(MatchingUpTo(list, r, q)) <= n,
         NEW x \in MatchingUpTo(list, r, q)
  PROVE  x \in {list[k].id : k \in Places(list, r, 0, n)}
<1> DEFINE M(p) == MatchingUpTo(list, r, p)
<1>1. DOMAIN list = 1..Len(list) /\ Len(list) \in Nat
  BY LenProperties
<1>2. PICK k \in 1..Len(list) : k <= q /\ Matches(r, list[k]) /\ x = list[k].id
  BY <1>1 DEF MatchingUpTo
<1>3. k - 1 \in Cuts(list) /\ k \in 0..q
  BY <1>1, <1>2 DEF Cuts
<1>4. Cardinality(M(k)) = Cardinality(M(k - 1)) + 1
  BY <1>2, MatchingNext
<1>5. Cardinality(M(k)) <= Cardinality(M(q))
  BY <1>3, CutsAreNested
<1>6. Cardinality(M(k - 1)) \in Nat /\ Cardinality(M(q)) \in Nat
  BY <1>3, MatchingFinite
<1>7. Cardinality(M(k - 1)) \in 0..(0 + n - 1)
  <2> HIDE DEF M
  <2> QED BY <1>4, <1>5, <1>6 DEF M
<1>8. k \in Places(list, r, 0, n)
  BY <1>1, <1>2, <1>7 DEF Places
<1>9. QED
  BY <1>2, <1>8

\* A change keeps what a listing has: a slice that goes to the front over the
\* offset is one for another that left, and one that is pushed behind it, for
\* another that entered.
LEMMA BecomesKeeps ==
  ASSUME IndInv, NEW new, NEW x, new \in Seq(Slice'), Distinct(new),
         Changes(slices, new, x, call.request, IDsOf(call.out)),
         created \in Nat, created' \in Nat, created <= created', created' \in 0..MaxSlices, Becomes(new), UNCHANGED call
  PROVE  IndInv'
<1> DEFINE r == call.request
           listed == IDsOf(call.out)
           New(q) == MatchingUpTo(new, r, q)
           passed(l) == {l[k].id : k \in Places(l, r, 0, call.offset)}
           gone == passed(slices) \ Matching(new, r)
           come == passed(new) \ Matching(slices, r)
<1>1. /\ slices' = new /\ always' = always \cap Matching(new, r)
      /\ left' = left + Cardinality(gone) /\ entered' = entered + Cardinality(come)
      /\ changes' = changes + 1 /\ call' = call
  BY DEF Becomes
<1>2. slices \in Seq(Slice) /\ Distinct(slices) /\ call.offset \in Nat /\ call.out \in Seq(Slice)
      /\ left \in Nat /\ entered \in Nat /\ changes \in Nat
  BY DEF IndInv, TypeOK, Distinct
<1>3. Slice \subseteq Slice'
  BY DEF Slice
<1>4. /\ DOMAIN slices = 1..Len(slices) /\ Len(slices) \in Cuts(slices)
      /\ DOMAIN new = 1..Len(new) /\ Len(new) \in Cuts(new)
  BY <1>2, LenProperties DEF Cuts
<1>5. IsFiniteSet(listed) /\ Cardinality(listed) \in Nat
  BY <1>2, IDsFinite
<1>6. /\ \A q \in Cuts(slices) : IsFiniteSet(InFront(q)) /\ Cardinality(InFront(q)) \in Nat
      /\ \A q \in Cuts(new) : IsFiniteSet(New(q)) /\ Cardinality(New(q)) \in Nat
  BY <1>2, MatchingFinite DEF InFront
<1>7. \A l : passed(l) \subseteq IDsOf(l)
  BY DEF Places, IDsOf
<1>8. /\ IsFiniteSet(gone) /\ Cardinality(gone) \in Nat
      /\ IsFiniteSet(come) /\ Cardinality(come) \in Nat
  BY <1>2, <1>7, IDsFinite, FS_Subset, FS_CardinalityType
<1> HIDE DEF gone, come
<1>9. 0 < Cardinality(come) \/ come = {}
  BY <1>8, FS_EmptySet
<1>10. 0 < Cardinality(gone) \/ gone = {}
  BY <1>8, FS_EmptySet
<1>a. /\ left' \in Nat /\ left <= left' /\ (gone # {} => left + 1 <= left')
      /\ entered' \in Nat /\ entered <= entered' /\ (come # {} => entered + 1 <= entered')
  BY <1>1, <1>2, <1>8, <1>9, <1>10
<1>11. TypeOK'
  <2>1. call.out \in Seq(Slice')
    BY <1>2, <1>3, SeqMonotonic
  <2>2. call' \in [request : Requests, pc : {"idle", "token", "request", "returned"},
                   offset : Nat, out : Seq(Slice'), error : Errors \cup {""}]
    BY <1>1, <2>1 DEF IndInv, TypeOK
  <2>3. always' \subseteq 1..created' /\ {left', entered', changes'} \subseteq Nat
    <3>1. always \subseteq 1..created
      BY DEF IndInv, TypeOK
    <3>2. MaxSlices \in Nat
      BY SizesAssumption
    <3>3. 1..created \subseteq 1..created'
      BY <3>2
    <3>4. always' \subseteq 1..created'
      BY <1>1, <3>1, <3>3
    <3>5. left' \in Nat /\ entered' \in Nat /\ changes' \in Nat
      BY <1>1, <1>2, <1>a
    <3>6. QED
      BY <3>4, <3>5
  <2>4. created' \in 0..MaxSlices
    BY SizesAssumption
  <2>5. QED
    BY <1>1, <2>2, <2>3, <2>4 DEF IndInv, TypeOK, Distinct
<1>12. AlwaysInv'
  BY <1>1 DEF AlwaysInv
<1>13. ASSUME call.pc \in {"token", "request"}, NEW q \in Cuts(new), Cardinality(New(q)) <= call.offset
       PROVE  /\ Cardinality((always' \cap New(q)) \ listed) <= left'
              /\ Cardinality(New(q)) <= entered' + Cardinality(listed \ Behind(new, q))
  <2> DEFINE missed(S) == (always \cap S) \ listed
  <2>1. PICK p \in Cuts(slices) :
          /\ New(q) \ {x} = InFront(p) \ {x}
          /\ x \in New(q) \ InFront(p) => x \notin Matching(slices, r)
          /\ x \in InFront(p) \ New(q) => x \notin Matching(new, r)
          /\ listed \cap Behind(new, q) \subseteq Behind(slices, p)
    BY DEF Changes, InFront
  <2>2. \A c \in Cuts(slices) : CutInv(c)
    BY <1>13 DEF IndInv, ListingInv
  <2>3. always \subseteq Matching(slices, r)
    BY DEF IndInv, AlwaysInv
  <2>4. (always' \cap New(q)) \ listed \subseteq missed(InFront(p)) \ (InFront(p) \ New(q))
    BY <1>1, <2>1, <2>3
  <2>5. \A c \in 0..p : Cardinality(listed \ Behind(slices, c)) <= Cardinality(listed \ Behind(new, q))
                        /\ Cardinality(listed \ Behind(slices, c)) \in Nat
                        /\ Cardinality(listed \ Behind(new, q)) \in Nat
    <3> SUFFICES ASSUME NEW c \in 0..p
                 PROVE  /\ Cardinality(listed \ Behind(slices, c)) <= Cardinality(listed \ Behind(new, q))
                        /\ Cardinality(listed \ Behind(slices, c)) \in Nat
                        /\ Cardinality(listed \ Behind(new, q)) \in Nat
      OBVIOUS
    <3>1. Behind(slices, p) \subseteq Behind(slices, c)
      BY <1>2, CutsAreNested
    <3>2. listed \ Behind(slices, c) \subseteq listed \ Behind(new, q)
      BY <2>1, <3>1
    <3>3. IsFiniteSet(listed \ Behind(new, q))
      BY <1>5, FS_Difference
    <3>4. QED
      BY <3>2, <3>3, FS_Subset, FS_CardinalityType
  <2>6. \A S, U : IsFiniteSet(U) /\ S \subseteq U
          => Cardinality(S) <= Cardinality(U) /\ Cardinality(S) \in Nat /\ Cardinality(U) \in Nat
    BY FS_Subset, FS_CardinalityType
  <2>7. IsFiniteSet(New(q)) /\ IsFiniteSet(InFront(p)) /\ Cardinality(New(q)) \in Nat
        /\ Cardinality(InFront(p)) \in Nat /\ p \in 0..p
    BY <1>6, <2>1, <1>4 DEF Cuts
  <2>8. CASE Cardinality(InFront(p)) <= call.offset
    <3>1. Cardinality((always' \cap New(q)) \ listed) <= left'
      <4>1. (always' \cap New(q)) \ listed \subseteq missed(InFront(p)) /\ IsFiniteSet(missed(InFront(p)))
        BY <2>4, <2>7, FS_Subset
      <4>2. Cardinality(missed(InFront(p))) <= left
        BY <2>2, <2>8 DEF CutInv
      <4>3. QED
        BY <1>2, <1>a, <2>6, <4>1, <4>2
    <3>2. Cardinality(InFront(p)) <= entered + Cardinality(listed \ Behind(slices, p))
      BY <2>2, <2>8 DEF CutInv
    <3>3. CASE x \in New(q) \ InFront(p)
      <4>1. x \in come
        <5>1. x \in passed(new)
          BY <1>2, <1>13, <3>3, FrontIsPassed
        <5>2. QED
          BY <2>1, <3>3, <5>1 DEF come
      <4>2. New(q) \subseteq InFront(p) \cup {x}
        BY <2>1
      <4>3. Cardinality(New(q)) <= Cardinality(InFront(p)) + 1
        <5>1. IsFiniteSet(InFront(p) \cup {x}) /\ Cardinality(InFront(p) \cup {x}) = Cardinality(InFront(p)) + 1
          BY <2>7, <3>3, FS_AddElement
        <5>2. QED
          BY <2>6, <4>2, <5>1
      <4>4. entered + 1 <= entered'
        BY <1>a, <4>1
      <4>5. QED
        <5> DEFINE front == Cardinality(InFront(p))
                   now == Cardinality(New(q))
                   before == Cardinality(listed \ Behind(slices, p))
                   after == Cardinality(listed \ Behind(new, q))
        <5>0. before \in Nat /\ after \in Nat /\ front \in Nat /\ now \in Nat
          BY <2>5, <2>7
        <5>1. before <= after /\ front <= entered + before
          BY <2>5, <2>7, <3>2
        <5>2. now <= front + 1
          BY <2>7, <4>3
        <5> HIDE DEF front, now, before, after
        <5>3. PICK e \in Nat : e = entered' /\ entered + 1 <= e
          BY <1>2, <1>a, <4>4
        <5>4. entered \in Nat /\ entered + 1 <= e
          BY <1>2, <5>3
        <5>5. now <= e + after
          BY <5>0, <5>1, <5>2, <5>4
        <5>6. QED
          BY <3>1, <5>3, <5>5 DEF now, after
    <3>4. CASE x \notin New(q) \ InFront(p)
      <4>1. Cardinality(New(q)) <= Cardinality(InFront(p))
        <5>1. New(q) \subseteq InFront(p)
          BY <2>1, <3>4
        <5>2. QED
          BY <2>6, <2>7, <5>1
      <4>2. QED
        <5> DEFINE front == Cardinality(InFront(p))
                   now == Cardinality(New(q))
                   before == Cardinality(listed \ Behind(slices, p))
                   after == Cardinality(listed \ Behind(new, q))
        <5>0. before \in Nat /\ after \in Nat /\ front \in Nat /\ now \in Nat
          BY <2>5, <2>7
        <5>1. before <= after /\ front <= entered + before
          BY <2>5, <2>7, <3>2
        <5>2. now <= front
          BY <2>7, <4>1
        <5> HIDE DEF front, now, before, after
        <5>3. PICK e \in Nat : e = entered' /\ entered <= e
          BY <1>2, <1>a
        <5>4. entered \in Nat /\ entered <= e
          BY <1>2, <5>3
        <5>5. now <= e + after
          BY <5>0, <5>1, <5>2, <5>4
        <5>6. QED
          BY <3>1, <5>3, <5>5 DEF now, after
    <3>5. QED
      BY <3>3, <3>4
  <2>9. CASE ~(Cardinality(InFront(p)) <= call.offset)
    <3>1. x \in InFront(p) \ New(q)
      <4>1. x \notin InFront(p) \ New(q) => InFront(p) \subseteq New(q)
        BY <2>1
      <4>2. InFront(p) \subseteq New(q) => Cardinality(InFront(p)) <= Cardinality(New(q))
        BY <2>6, <2>7
      <4>3. QED
        BY <1>2, <1>13, <2>7, <2>9, <4>1, <4>2
    <3>2. Cardinality(InFront(p)) = call.offset + 1 /\ Cardinality(New(q)) = call.offset
      <4>1. InFront(p) \ {x} = New(q)
        BY <2>1, <3>1
      <4>2. Cardinality(InFront(p) \ {x}) = Cardinality(InFront(p)) - 1
        BY <2>7, <3>1, FS_RemoveElement
      <4>3. QED
        <5> DEFINE before == Cardinality(InFront(p))
                   now == Cardinality(New(q))
        <5>1. now = before - 1
          BY <4>1, <4>2
        <5>2. before \in Nat /\ now \in Nat /\ ~(before <= call.offset) /\ now <= call.offset
          BY <1>13, <2>7, <2>9
        <5> HIDE DEF before, now
        <5>3. before = call.offset + 1 /\ now = call.offset
          BY <1>2, <5>1, <5>2
        <5>4. QED
          BY <5>3 DEF before, now
    <3>3. PICK c \in 0..p : c \in Cuts(slices) /\ Cardinality(InFront(c)) = call.offset
      <4>1. call.offset \in 0..Cardinality(InFront(p))
        BY <1>2, <3>2
      <4>2. QED
        BY <1>2, <4>1, CutWith DEF InFront
    <3>4. InFront(c) \subseteq InFront(p)
      BY <1>2, CutsAreNested DEF InFront
    <3>5. PICK z : InFront(p) \ InFront(c) = {z}
      <4>1. InFront(p) \cap InFront(c) = InFront(c)
        BY <3>4
      <4>2. Cardinality(InFront(p) \ InFront(c)) = Cardinality(InFront(p)) - Cardinality(InFront(c))
            /\ IsFiniteSet(InFront(p) \ InFront(c))
        BY <2>7, <4>1, FS_Difference
      <4>3. Cardinality(InFront(p) \ InFront(c)) = 1
        BY <1>2, <3>2, <3>3, <4>2
      <4>4. QED
        BY <4>2, <4>3, FS_Singleton
    <3>6. /\ Cardinality(missed(InFront(c))) <= left
          /\ call.offset <= entered + Cardinality(listed \ Behind(slices, c))
      <4>1. CutInv(c) /\ Cardinality(InFront(c)) <= call.offset
        BY <1>2, <2>2, <3>3
      <4>2. QED
        BY <3>3, <4>1 DEF CutInv
    <3>7. IsFiniteSet(missed(InFront(c))) /\ Cardinality(missed(InFront(c))) \in Nat
      <4>1. missed(InFront(c)) \subseteq InFront(c) /\ IsFiniteSet(InFront(c))
        BY <1>6, <3>3
      <4>2. QED
        BY <4>1, FS_Subset, FS_CardinalityType
    <3>8. Cardinality((always' \cap New(q)) \ listed) <= left'
      <4>1. CASE x \in InFront(c)
        <5>1. x \in gone
          <6>1. x \in passed(slices)
            <7>1. /\ slices \in Seq(Slice) /\ Distinct(slices) /\ call.offset \in Nat /\ c \in Cuts(slices)
                  /\ Cardinality(MatchingUpTo(slices, r, c)) <= call.offset
                  /\ x \in MatchingUpTo(slices, r, c)
              BY <1>2, <3>3, <4>1 DEF InFront
            <7> HIDE DEF r
            <7>2. QED
              BY <7>1, FrontIsPassed
          <6>2. QED
            BY <2>1, <3>1, <6>1 DEF gone
        <5>2. left + 1 <= left'
          BY <1>a, <5>1
        <5>3. (always' \cap New(q)) \ listed \subseteq missed(InFront(c)) \cup {z}
          BY <2>4, <3>5
        <5>4. IsFiniteSet(missed(InFront(c)) \cup {z})
              /\ Cardinality(missed(InFront(c)) \cup {z}) <= Cardinality(missed(InFront(c))) + 1
          <6>1. Cardinality(missed(InFront(c)) \cup {z})
                  = IF z \in missed(InFront(c)) THEN Cardinality(missed(InFront(c)))
                    ELSE Cardinality(missed(InFront(c))) + 1
            BY <3>7, FS_AddElement
          <6>2. IsFiniteSet(missed(InFront(c)) \cup {z})
            BY <3>7, FS_AddElement
          <6> HIDE DEF missed
          <6>3. QED
            BY <3>7, <6>1, <6>2
        <5>5. QED
          BY <1>2, <1>a, <2>6, <3>6, <3>7, <5>2, <5>3, <5>4
      <4>2. CASE x \notin InFront(c)
        <5>1. (always' \cap New(q)) \ listed \subseteq missed(InFront(c))
          BY <2>4, <3>1, <3>5, <4>2
        <5>2. QED
          BY <1>2, <1>a, <2>6, <3>6, <3>7, <5>1
      <4>3. QED
        BY <4>1, <4>2
    <3>9. Cardinality(New(q)) <= entered' + Cardinality(listed \ Behind(new, q))
      <4> DEFINE before == Cardinality(listed \ Behind(slices, c))
                 now == Cardinality(listed \ Behind(new, q))
      <4>1. before \in Nat /\ now \in Nat /\ before <= now
        BY <2>5
      <4>2. call.offset <= entered + before
        BY <3>6
      <4> HIDE DEF before, now
      <4>3. call.offset <= entered' + now
        BY <1>2, <1>a, <4>1, <4>2
      <4>4. QED
        BY <3>2, <4>3 DEF now
    <3>10. QED
      BY <3>8, <3>9
  <2>10. QED
    BY <2>8, <2>9
<1>14. ListingInv'
  <2>1. ASSUME NEW q \in Cuts(new), call.pc \in {"token", "request"} PROVE CutInv(q)'
    BY <1>1, <1>13, <2>1 DEF CutInv, InFront
  <2>2. call.pc \in {"token", "request"} => Len(call.out) - Cardinality(listed) <= entered'
    <3>1. Len(call.out) \in Nat
      BY <1>2, LenProperties
    <3>2. QED
      BY <1>2, <1>5, <1>a, <3>1 DEF IndInv, ListingInv
  <2>3. QED
    BY <1>1, <2>1, <2>2 DEF ListingInv
<1>15. MissedAtMostLeft' /\ TwiceAtMostEntered'
  <2>1. IsFiniteSet(always)
    <3>1. always \subseteq 1..created
      BY DEF IndInv, TypeOK
    <3>2. IsFiniteSet(1..created)
      BY FS_Interval
    <3>3. QED
      BY <3>1, <3>2, FS_Subset
  <2>2. Cardinality(always' \ listed) <= Cardinality(always \ listed)
        /\ Cardinality(always \ listed) \in Nat /\ Cardinality(always' \ listed) \in Nat
    <3>1. always' \ listed \subseteq always \ listed
      BY <1>1
    <3>2. IsFiniteSet(always \ listed)
      BY <2>1, FS_Difference
    <3>3. QED
      BY <3>1, <3>2, FS_Subset, FS_CardinalityType
  <2>3. Len(call.out) \in Nat
    BY <1>2, LenProperties
  <2>4. Listed' = Listed
    BY <1>1 DEF Listed
  <2>5. MissedAtMostLeft'
    <3>1. Listed => Cardinality(always \ listed) <= left
      BY DEF IndInv, MissedAtMostLeft
    <3>2. Listed => Cardinality(always' \ listed) <= left'
      BY <1>2, <1>a, <2>2, <3>1
    <3>3. QED
      BY <1>1, <2>4, <3>2 DEF MissedAtMostLeft
  <2>6. TwiceAtMostEntered'
    <3>1. Listed => Len(call.out) - Cardinality(listed) <= entered
      BY DEF IndInv, TwiceAtMostEntered
    <3>2. Listed => Len(call.out) - Cardinality(listed) <= entered'
      BY <1>2, <1>5, <1>a, <2>3, <3>1
    <3>3. QED
      BY <1>1, <2>4, <3>2 DEF TwiceAtMostEntered
  <2>7. QED
    BY <2>5, <2>6
<1>16. QED
  BY <1>11, <1>12, <1>14, <1>15 DEF IndInv

\* So does each of the orchestrator's changes.
LEMMA OrchestratorKeeps == IndInv /\ Orchestrator => IndInv'
<1> SUFFICES ASSUME IndInv, Orchestrator PROVE IndInv'
  OBVIOUS
<1> DEFINE listed == IDsOf(call.out)
<1>0. MaxSlices \in Nat
  BY SizesAssumption
<1>1. /\ slices \in Seq(Slice) /\ Distinct(slices) /\ call.out \in Seq(Slice)
      /\ created \in Nat /\ created \in 0..MaxSlices /\ MaxSlices \in Nat
  <2>1. slices \in Seq(Slice) /\ Distinct(slices) /\ created \in 0..MaxSlices
    BY DEF IndInv, TypeOK, Distinct
  <2>2. call.out \in Seq(Slice)
    BY DEF IndInv, TypeOK
  <2>3. created \in Nat
    BY <1>0, <2>1
  <2>4. QED
    BY <1>0, <2>1, <2>2, <2>3
<1>2. DOMAIN slices = 1..Len(slices) /\ \A k \in 1..Len(slices) : slices[k] \in Slice
  BY <1>1, LenProperties, ElementOfSeq
<1>3. CASE CreateSlice
  <2>1. /\ created' = created + 1 /\ created' \in Nat /\ created <= created' /\ created' \in 0..MaxSlices
        /\ UNCHANGED call
    BY <1>1, <1>3 DEF CreateSlice
  <2>2. PICK k \in 1..(Len(slices) + 1), name \in Names, state \in States :
          Becomes(InsertAt(slices, k, [id |-> created', name |-> name, state |-> state]))
    BY <1>3 DEF CreateSlice
  <2> DEFINE e == [id |-> created', name |-> name, state |-> state]
  <2>3. e \in Slice' /\ Slice \subseteq Slice'
    BY <1>1, <2>1 DEF Slice
  <2>4. e.id \notin IDsOf(slices) /\ e.id \notin listed
    <3>1. \A s \in Slice : s.id # created'
      BY <1>1, <2>1 DEF Slice
    <3>2. DOMAIN call.out = 1..Len(call.out) /\ \A k1 \in 1..Len(call.out) : call.out[k1] \in Slice
      BY <1>1, LenProperties, ElementOfSeq
    <3>3. QED
      BY <1>2, <3>1, <3>2 DEF IDsOf
  <2>5. slices \in Seq(Slice')
    BY <1>1, <2>3, SeqMonotonic
  <2> HIDE DEF e, listed
  <2>6. /\ InsertAt(slices, k, e) \in Seq(Slice') /\ Distinct(InsertAt(slices, k, e))
        /\ Changes(slices, InsertAt(slices, k, e), e.id, call.request, listed)
    BY <1>1, <2>3, <2>4, <2>5, InsertChanges
  <2>7. QED
    BY <1>1, <2>1, <2>2, <2>6, BecomesKeeps DEF e, listed
<1>4. CASE DeleteSlice
  <2>1. PICK k \in 1..Len(slices) : Becomes(RemoveAt(slices, k)) /\ UNCHANGED <<created, call>>
    BY <1>2, <1>4 DEF DeleteSlice
  <2>2. Slice' = Slice
    BY <2>1 DEF Slice
  <2> HIDE DEF listed
  <2>3. /\ RemoveAt(slices, k) \in Seq(Slice) /\ Distinct(RemoveAt(slices, k))
        /\ Changes(slices, RemoveAt(slices, k), slices[k].id, call.request, listed)
    BY <1>1, RemoveChanges
  <2>4. created' \in Nat /\ created <= created' /\ created' \in 0..MaxSlices /\ UNCHANGED call
    BY <1>1, <2>1
  <2>5. QED
    BY <1>1, <2>1, <2>2, <2>3, <2>4, BecomesKeeps DEF listed
<1>5. CASE SliceChangesState
  <2>1. PICK k \in 1..Len(slices), state \in States :
          Becomes([slices EXCEPT ![k].state = state]) /\ UNCHANGED <<created, call>>
    BY <1>2, <1>5 DEF SliceChangesState
  <2>2. Slice' = Slice
    BY <2>1 DEF Slice
  <2> DEFINE e == [slices[k] EXCEPT !.state = state]
  <2>3. e \in Slice /\ e.id = slices[k].id
    BY <1>2 DEF Slice
  <2>4. [slices EXCEPT ![k].state = state] = [slices EXCEPT ![k] = e]
    OBVIOUS
  <2> HIDE DEF e, listed
  <2>5. /\ [slices EXCEPT ![k] = e] \in Seq(Slice) /\ Distinct([slices EXCEPT ![k] = e])
        /\ Changes(slices, [slices EXCEPT ![k] = e], e.id, call.request, listed)
    BY <1>1, <2>3, StateChanges
  <2>6. created' \in Nat /\ created <= created' /\ created' \in 0..MaxSlices /\ UNCHANGED call
    BY <1>1, <2>1
  <2>7. Becomes([slices EXCEPT ![k] = e])
    BY <2>1, <2>4
  <2>8. QED
    BY <1>1, <2>2, <2>5, <2>6, <2>7, BecomesKeeps DEF listed
<1>6. QED
  BY <1>3, <1>4, <1>5 DEF Orchestrator

-----------------------------------------------------------------------------
(* The call.                                                               *)

\* Two lists have together the IDs of each.
LEMMA IDsOfBoth ==
  ASSUME NEW S, NEW s \in Seq(S), NEW t \in Seq(S)
  PROVE  IDsOf(s \o t) = IDsOf(s) \cup IDsOf(t)
<1>1. /\ s \o t \in Seq(S) /\ Len(s \o t) = Len(s) + Len(t)
      /\ \A i \in 1..(Len(s) + Len(t)) : (s \o t)[i] = IF i <= Len(s) THEN s[i] ELSE t[i - Len(s)]
  BY ConcatProperties
<1>2. /\ Len(s) \in Nat /\ Len(t) \in Nat /\ DOMAIN s = 1..Len(s) /\ DOMAIN t = 1..Len(t)
      /\ DOMAIN (s \o t) = 1..(Len(s) + Len(t))
  BY <1>1, LenProperties
<1> DEFINE both == s \o t
<1> HIDE DEF both
<1>3. ASSUME NEW i \in 1..(Len(s) + Len(t)) PROVE both[i].id \in IDsOf(s) \cup IDsOf(t)
  <2>1. CASE i <= Len(s)
    BY <1>1, <1>2, <2>1 DEF both, IDsOf
  <2>2. CASE ~(i <= Len(s))
    <3>1. i - Len(s) \in 1..Len(t) /\ both[i] = t[i - Len(s)]
      BY <1>1, <1>2, <2>2 DEF both
    <3>2. QED
      BY <1>2, <3>1 DEF IDsOf
  <2>3. QED
    BY <2>1, <2>2
<1>4. ASSUME NEW i \in 1..Len(s) PROVE s[i].id \in IDsOf(both)
  <2>1. i \in 1..(Len(s) + Len(t)) /\ both[i] = s[i]
    BY <1>1, <1>2 DEF both
  <2>2. QED
    BY <1>2, <2>1 DEF IDsOf, both
<1>5. ASSUME NEW i \in 1..Len(t) PROVE t[i].id \in IDsOf(both)
  <2>1. Len(s) + i \in 1..(Len(s) + Len(t)) /\ ~(Len(s) + i <= Len(s)) /\ Len(s) + i - Len(s) = i
    BY <1>2
  <2>2. both[Len(s) + i] = t[i]
    BY <1>1, <2>1 DEF both
  <2>3. QED
    BY <1>2, <2>1, <2>2 DEF IDsOf, both
<1>6. QED
  BY <1>2, <1>3, <1>4, <1>5 DEF IDsOf, both

\* With a page more, what is listed keeps up with every cut that the page reaches.
LEMMA PageAdvances ==
  ASSUME IndInv, call.pc = "request", NEW q \in Cuts(slices),
         Cardinality(InFront(q)) <= call.offset + PageSize
  PROVE  LET listed == IDsOf(call.out) \cup IDsOf(Page)
         IN  /\ Cardinality((always \cap InFront(q)) \ listed) <= left
             /\ Cardinality(InFront(q)) <= entered + Cardinality(listed \ Behind(slices, q))
<1> DEFINE old == IDsOf(call.out)
           listed == old \cup IDsOf(Page)
           missed(p) == (always \cap InFront(p)) \ old
<1>1. /\ slices \in Seq(Slice) /\ Distinct(slices) /\ call.out \in Seq(Slice) /\ call.offset \in Nat
      /\ left \in Nat /\ entered \in Nat /\ PageSize \in Nat
  BY SizesAssumption DEF IndInv, TypeOK, Distinct
<1>2. DOMAIN slices = 1..Len(slices) /\ Len(slices) \in Nat
  BY <1>1, LenProperties
<1>3. Page \in Seq(Slice)
  BY PageIs DEF IndInv
<1>4. IsFiniteSet(old) /\ IsFiniteSet(IDsOf(Page)) /\ IsFiniteSet(listed)
  BY <1>1, <1>3, IDsFinite, FS_Union
<1>5. \A p \in Cuts(slices) : CutInv(p)
  BY DEF IndInv, ListingInv
<1>6. \A p \in Cuts(slices) : IsFiniteSet(InFront(p)) /\ Cardinality(InFront(p)) \in Nat
  BY <1>1, MatchingFinite DEF InFront
<1>7. \A S, U : IsFiniteSet(U) /\ S \subseteq U
        => IsFiniteSet(S) /\ Cardinality(S) <= Cardinality(U) /\ Cardinality(S) \in Nat /\ Cardinality(U) \in Nat
  BY FS_Subset, FS_CardinalityType
<1>8. IsFiniteSet(listed \ Behind(slices, q))
  BY <1>4, FS_Difference
<1> DEFINE now == Cardinality(listed \ Behind(slices, q))
<1>9. CASE Cardinality(InFront(q)) <= call.offset
  <2>1. /\ Cardinality(missed(q)) <= left
        /\ Cardinality(InFront(q)) <= entered + Cardinality(old \ Behind(slices, q))
    BY <1>5, <1>9 DEF CutInv
  <2>2. Cardinality((always \cap InFront(q)) \ listed) <= left
    <3>1. (always \cap InFront(q)) \ listed \subseteq missed(q) /\ IsFiniteSet(missed(q))
      BY <1>6, <1>7
    <3> DEFINE few == Cardinality((always \cap InFront(q)) \ listed)
               more == Cardinality(missed(q))
    <3>2. few \in Nat /\ more \in Nat /\ few <= more
      BY <1>7, <3>1
    <3> HIDE DEF few, more
    <3>3. few <= left
      BY <1>1, <2>1, <3>2 DEF more
    <3>4. QED
      BY <3>3 DEF few
  <2>3. Cardinality(InFront(q)) <= entered + now
    <3> DEFINE before == Cardinality(old \ Behind(slices, q))
               front == Cardinality(InFront(q))
    <3>1. before \in Nat /\ now \in Nat /\ before <= now
      <4>1. old \ Behind(slices, q) \subseteq listed \ Behind(slices, q)
        OBVIOUS
      <4>2. QED
        BY <1>7, <1>8, <4>1
    <3>2. front \in Nat
      BY <1>6
    <3>3. front <= entered + before
      BY <2>1
    <3> HIDE DEF before, now, front
    <3>4. front <= entered + now
      BY <1>1, <3>1, <3>2, <3>3
    <3>5. QED
      BY <3>4 DEF front
  <2>4. QED
    BY <2>2, <2>3
<1>10. CASE ~(Cardinality(InFront(q)) <= call.offset)
  <2>1. PICK p \in 0..q : p \in Cuts(slices) /\ Cardinality(InFront(p)) = call.offset
    <3>1. call.offset \in 0..Cardinality(InFront(q))
      BY <1>1, <1>6, <1>10
    <3>2. QED
      BY <1>1, <3>1, CutWith DEF InFront
  <2>2. InFront(p) \subseteq InFront(q) /\ Behind(slices, q) \subseteq Behind(slices, p)
    BY <1>1, CutsAreNested DEF InFront
  <2> DEFINE met == InFront(q) \ InFront(p)
  <2>3. met \subseteq IDsOf(Page)
    BY <2>1, PageIs DEF IndInv
  <2>4. /\ Cardinality(missed(p)) <= left
        /\ call.offset <= entered + Cardinality(old \ Behind(slices, p))
    <3>1. CutInv(p) /\ Cardinality(InFront(p)) <= call.offset
      BY <1>1, <1>5, <2>1
    <3>2. QED
      BY <2>1, <3>1 DEF CutInv
  <2>5. Cardinality((always \cap InFront(q)) \ listed) <= left
    <3>1. (always \cap InFront(q)) \ listed \subseteq missed(p) /\ IsFiniteSet(missed(p))
      BY <1>6, <1>7, <2>1, <2>3
    <3> DEFINE few == Cardinality((always \cap InFront(q)) \ listed)
               more == Cardinality(missed(p))
    <3>2. few \in Nat /\ more \in Nat /\ few <= more
      BY <1>7, <3>1
    <3> HIDE DEF few, more
    <3>3. few <= left
      BY <1>1, <2>4, <3>2 DEF more
    <3>4. QED
      BY <3>3 DEF few
  <2>6. met \subseteq Behind(slices, p) /\ met \cap Behind(slices, q) = {}
    <3>1. \A y \in InFront(q) : y \notin Behind(slices, q)
      BY <1>1, <1>2 DEF InFront, MatchingUpTo, Behind, Distinct, Cuts
    <3>2. \A y \in met : y \in Behind(slices, p)
      <4> SUFFICES ASSUME NEW k \in 1..Len(slices), Matches(call.request, slices[k]), k <= q,
                          slices[k].id \notin InFront(p)
                   PROVE  slices[k].id \in Behind(slices, p)
        BY <1>2 DEF InFront, MatchingUpTo
      <4>1. k > p
        BY <1>2, <2>1 DEF InFront, MatchingUpTo, Cuts
      <4>2. QED
        BY <1>2, <4>1 DEF Behind
    <3>3. QED
      BY <3>1, <3>2
  <2>7. (old \ Behind(slices, p)) \cup met \subseteq listed \ Behind(slices, q)
        /\ (old \ Behind(slices, p)) \cap met = {}
    BY <2>2, <2>3, <2>6
  <2> DEFINE before == Cardinality(old \ Behind(slices, p))
             new == Cardinality(met)
             front == Cardinality(InFront(q))
  <2>8. /\ before \in Nat /\ new \in Nat /\ now \in Nat /\ front \in Nat
        /\ before + new <= now
    <3>1. IsFiniteSet(old \ Behind(slices, p)) /\ IsFiniteSet(met)
      BY <1>4, <1>6, FS_Difference
    <3>2. Cardinality((old \ Behind(slices, p)) \cup met)
            = Cardinality(old \ Behind(slices, p)) + Cardinality(met) - Cardinality({})
      BY <2>7, <3>1, FS_Union
    <3>3. before \in Nat /\ new \in Nat /\ front \in Nat /\ Cardinality({}) = 0
      BY <1>6, <3>1, FS_CardinalityType, FS_EmptySet
    <3>4. now \in Nat /\ Cardinality((old \ Behind(slices, p)) \cup met) <= now
      BY <1>7, <1>8, <2>7
    <3> DEFINE sum == Cardinality((old \ Behind(slices, p)) \cup met)
    <3>5. sum = before + new - 0 /\ sum <= now
      BY <3>2, <3>3, <3>4
    <3> HIDE DEF before, new, now, front, sum
    <3>6. QED
      BY <3>3, <3>4, <3>5
  <2>9. new = front - call.offset
    <3>1. InFront(q) \cap InFront(p) = InFront(p)
      BY <2>2
    <3>2. Cardinality(InFront(q) \ InFront(p)) = Cardinality(InFront(q)) - Cardinality(InFront(q) \cap InFront(p))
      BY <1>6, FS_Difference
    <3>3. QED
      BY <2>1, <3>1, <3>2
  <2>10. call.offset <= entered + before
    BY <2>4
  <2>11. front <= entered + now
    <3> HIDE DEF before, new, now, front
    <3>1. QED
      BY <1>1, <2>8, <2>9, <2>10
  <2>12. QED
    BY <2>5, <2>11
<1>11. QED
  BY <1>9, <1>10

\* A call begins with nothing listed and nothing in front of the offset.
LEMMA ListSlicesKeeps == ASSUME IndInv, NEW r \in Requests, ListSlices(r) PROVE IndInv'
<1>1. /\ slices' = slices /\ created' = created /\ changes' = changes
      /\ call' = [request |-> r, pc |-> "token", offset |-> 0, out |-> << >>, error |-> ""]
      /\ always' = Matching(slices, r) /\ left' = 0 /\ entered' = 0
  BY DEF ListSlices
<1>2. slices \in Seq(Slice) /\ Distinct(slices) /\ changes \in Nat /\ created \in 0..MaxSlices
  BY DEF IndInv, TypeOK, Distinct
<1>3. DOMAIN slices = 1..Len(slices) /\ Len(slices) \in Nat /\ \A k \in 1..Len(slices) : slices[k] \in Slice
  BY <1>2, LenProperties, ElementOfSeq
<1>4. Matching(slices, r) \subseteq 1..created
  BY <1>3 DEF Matching, MatchingUpTo, Slice
<1>5. Slice' = Slice
  BY <1>1 DEF Slice
<1>6. << >> \in Seq(Slice) /\ Len(<< >>) = 0 /\ IDsOf(<< >>) = {}
  BY EmptySeq DEF IDsOf
<1>7. TypeOK'
  <2>1. call' \in [request : Requests, pc : {"idle", "token", "request", "returned"},
                   offset : Nat, out : Seq(Slice), error : Errors \cup {""}]
        /\ call'.error = "" /\ Len(call'.out) = call'.offset
    <3>1. [request |-> r, pc |-> "token", offset |-> 0, out |-> << >>, error |-> ""]
            \in [request : Requests, pc : {"idle", "token", "request", "returned"},
                 offset : Nat, out : Seq(Slice), error : Errors \cup {""}]
      BY <1>6
    <3>2. call'.error = "" /\ call'.offset = 0 /\ call'.out = << >>
      BY <1>1
    <3>3. Len(call'.out) = call'.offset
      BY <1>6, <3>2
    <3>4. QED
      BY <1>1, <3>1, <3>2, <3>3
  <2>2. always' \subseteq 1..created /\ {left', entered', changes'} \subseteq Nat
    <3>1. left' = 0 /\ entered' = 0 /\ changes' \in Nat /\ always' = Matching(slices, r)
      BY <1>1, <1>2
    <3>2. QED
      BY <1>4, <3>1
  <2>3. QED
    BY <1>1, <1>2, <1>5, <2>1, <2>2 DEF TypeOK, Distinct
<1>8. AlwaysInv'
  BY <1>1 DEF AlwaysInv
<1>9. ASSUME NEW q \in Cuts(slices) PROVE CutInv(q)'
  <2> DEFINE front == MatchingUpTo(slices, r, q)
  <2>1. IsFiniteSet(front) /\ Cardinality(front) \in Nat
    BY <1>2, MatchingFinite
  <2>2. InFront(q)' = front /\ IDsOf(call.out)' = {} /\ call.offset' = 0
    BY <1>1, <1>6 DEF InFront
  <2>3. Cardinality({}) = 0 /\ (Cardinality(front) = 0 => front = {})
    BY <2>1, FS_EmptySet
  <2>4. (Cardinality(front) <= 0) => front = {}
    <3> DEFINE c == Cardinality(front)
    <3>1. c \in Nat
      BY <2>1
    <3> HIDE DEF c
    <3>2. c <= 0 => c = 0
      BY <3>1
    <3>3. QED
      BY <2>3, <3>2 DEF c
  <2> HIDE DEF front
  <2>5. (always' \cap {}) \ {} = {} /\ {} \ Behind(slices, q)' = {}
    OBVIOUS
  <2>6. front = {} =>
          /\ Cardinality((always' \cap front) \ {}) <= 0
          /\ Cardinality(front) <= 0 + Cardinality({} \ Behind(slices, q)')
    BY <2>3, <2>5
  <2>7. QED
    BY <1>1, <2>2, <2>4, <2>6 DEF CutInv
<1>10. ListingInv'
  <2>1. IDsOf(call.out)' = {} /\ Len(call.out)' = 0
    BY <1>1, <1>6
  <2>2. Len(call.out)' - Cardinality(IDsOf(call.out)') <= entered'
    <3>1. Cardinality(IDsOf(call.out)') = 0 /\ entered' = 0
      BY <1>1, <2>1, FS_EmptySet
    <3>2. QED
      BY <2>1, <3>1
  <2>3. \A q \in Cuts(slices)' : CutInv(q)'
    BY <1>1, <1>9
  <2>4. QED
    BY <2>2, <2>3 DEF ListingInv
<1>11. MissedAtMostLeft' /\ TwiceAtMostEntered'
  BY <1>1 DEF MissedAtMostLeft, TwiceAtMostEntered, Listed
<1>12. QED
  BY <1>7, <1>8, <1>10, <1>11 DEF IndInv

\* A step that ends the call with an error, or forgets it, leaves nothing to keep.
LEMMA EndingKeeps ==
  ASSUME IndInv, UNCHANGED <<slices, created, changes>>,
         call' \in [request : {call.request}, pc : {"idle", "returned"}, offset : Nat,
                    out : {<< >>}, error : Errors \cup {""}],
         call'.error = "" <=> call'.pc = "idle",
         \/ UNCHANGED <<always, left, entered>>
         \/ always' = {} /\ left' = 0 /\ entered' = 0
  PROVE  IndInv'
<1>1. Slice' = Slice
  BY DEF Slice
<1>2. /\ << >> \in Seq(Slice)
      /\ slices \in Seq(Slice) /\ created \in 0..MaxSlices /\ Distinct(slices)
      /\ call.request \in Requests /\ always \subseteq 1..created /\ {left, entered, changes} \subseteq Nat
  BY EmptySeq DEF IndInv, TypeOK, Distinct
<1>3. TypeOK'
  <2>1. call' \in [request : Requests, pc : {"idle", "token", "request", "returned"},
                   offset : Nat, out : Seq(Slice), error : Errors \cup {""}]
        /\ call'.out = << >> /\ call'.pc \in {"idle", "returned"}
    BY <1>2
  <2>2. always' \subseteq 1..created /\ {left', entered', changes'} \subseteq Nat
    <3>1. left' \in Nat /\ entered' \in Nat /\ changes' \in Nat /\ always' \subseteq always
      <4>1. left \in Nat /\ entered \in Nat /\ changes \in Nat /\ changes' = changes
        BY <1>2
      <4>2. CASE UNCHANGED <<always, left, entered>>
        BY <4>1, <4>2
      <4>3. CASE always' = {} /\ left' = 0 /\ entered' = 0
        BY <4>1, <4>3
      <4>4. QED
        BY <4>2, <4>3
    <3>2. QED
      BY <1>2, <3>1
  <2>3. call'.error # "" => call'.pc = "returned"
    BY <2>1
  <2>4. QED
    BY <1>1, <1>2, <2>1, <2>2, <2>3 DEF TypeOK, Distinct
<1>4. AlwaysInv'
  BY DEF IndInv, AlwaysInv
<1>5. ListingInv'
  BY DEF ListingInv
<1>6. MissedAtMostLeft' /\ TwiceAtMostEntered'
  BY DEF MissedAtMostLeft, TwiceAtMostEntered, Listed
<1>7. QED
  BY <1>3, <1>4, <1>5, <1>6 DEF IndInv

\* A token comes or does not; the list may have changed meanwhile, the call has not.
LEMMA TokenKeeps == ASSUME IndInv, Token PROVE IndInv'
<1>1. /\ call \in [request : Requests, pc : {"idle", "token", "request", "returned"},
                   offset : Nat, out : Seq(Slice), error : Errors \cup {""}]
      /\ call.pc = "token" /\ UNCHANGED <<slices, created, changes, always, left, entered>>
  BY DEF IndInv, TypeOK, Token
<1>2. CASE call' = [call EXCEPT !.pc = "request"]
  <2>1. /\ call'.pc = "request" /\ call'.offset = call.offset /\ call'.out = call.out
        /\ call'.error = call.error /\ call'.request = call.request
    BY <1>1, <1>2
  <2>2. TypeOK'
    <3>1. Slice' = Slice
      BY <1>1 DEF Slice
    <3>2. QED
      BY <1>1, <1>2, <2>1, <3>1 DEF IndInv, TypeOK
  <2>3. AlwaysInv'
    BY <1>1, <2>1 DEF IndInv, AlwaysInv
  <2>4. \A q : CutInv(q)' <=> CutInv(q)
    BY <1>1, <2>1 DEF CutInv, InFront
  <2>5. ListingInv'
    BY <1>1, <2>1, <2>4 DEF IndInv, ListingInv
  <2>6. MissedAtMostLeft' /\ TwiceAtMostEntered'
    BY <2>1 DEF MissedAtMostLeft, TwiceAtMostEntered, Listed
  <2>7. QED
    BY <2>2, <2>3, <2>5, <2>6 DEF IndInv
<1>3. CASE call' = [call EXCEPT !.pc = "returned", !.out = << >>, !.error = "other"]
  <2>1. call' \in [request : {call.request}, pc : {"idle", "returned"}, offset : Nat,
                   out : {<< >>}, error : Errors \cup {""}]
        /\ call'.error = "other" /\ call'.pc = "returned"
    BY <1>1, <1>3 DEF Errors
  <2>2. QED
    BY <1>1, <2>1, EndingKeeps
<1>4. QED
  BY <1>2, <1>3 DEF Token

\* A failed exchange ends the call with an error of its own and nothing listed.
LEMMA RequestFailsKeeps == ASSUME IndInv, RequestFails PROVE IndInv'
<1>1. /\ call \in [request : Requests, pc : {"idle", "token", "request", "returned"},
                   offset : Nat, out : Seq(Slice), error : Errors \cup {""}]
      /\ UNCHANGED <<slices, created, changes, always, left, entered>>
  BY DEF IndInv, TypeOK, RequestFails
<1>2. PICK status \in Failures :
        call' = [call EXCEPT !.pc = "returned", !.out = << >>, !.error = MapHTTPErr(status)]
  BY DEF RequestFails
<1>3. MapHTTPErr(status) \in Errors /\ MapHTTPErr(status) # ""
  BY DEF MapHTTPErr, Errors
<1> HIDE DEF MapHTTPErr
<1>4. call' \in [request : {call.request}, pc : {"idle", "returned"}, offset : Nat,
                 out : {<< >>}, error : Errors \cup {""}]
      /\ call'.error # "" /\ call'.pc = "returned"
  BY <1>1, <1>2, <1>3
<1>5. QED
  BY <1>1, <1>4, EndingKeeps

\* The caller forgets the answer.
LEMMA ReturnKeeps == ASSUME IndInv, Return PROVE IndInv'
<1>1. /\ call \in [request : Requests, pc : {"idle", "token", "request", "returned"},
                   offset : Nat, out : Seq(Slice), error : Errors \cup {""}]
      /\ UNCHANGED <<slices, created, changes>>
      /\ always' = {} /\ left' = 0 /\ entered' = 0
      /\ call' = [call EXCEPT !.pc = "idle", !.offset = 0, !.out = << >>, !.error = ""]
  BY DEF IndInv, TypeOK, Return
<1>2. call' \in [request : {call.request}, pc : {"idle", "returned"}, offset : Nat,
                 out : {<< >>}, error : Errors \cup {""}]
      /\ call'.error = "" /\ call'.pc = "idle"
  BY <1>1
<1>3. QED
  BY <1>1, <1>2, EndingKeeps

\* A page is taken over whole, and the offset moves by what a full page holds.
LEMMA RequestPageKeeps == ASSUME IndInv, RequestPage PROVE IndInv'
<1> DEFINE out == call.out \o Page
           listed == IDsOf(call.out) \cup IDsOf(Page)
<1>1. PageSize \in Nat \ {0}
  BY SizesAssumption
<1>2. /\ call \in [request : Requests, pc : {"idle", "token", "request", "returned"},
                   offset : Nat, out : Seq(Slice), error : Errors \cup {""}]
      /\ call.pc = "request" /\ UNCHANGED <<slices, created, changes, always, left, entered>>
      /\ call.error = "" /\ Len(call.out) = call.offset /\ slices \in Seq(Slice) /\ entered \in Nat
  BY DEF IndInv, TypeOK, RequestPage
<1>3. /\ Page \in Seq(Slice) /\ Len(Page) \in Nat /\ Len(Page) <= PageSize
      /\ Len(Page) < PageSize => Cardinality(InFront(Len(slices))) <= call.offset + PageSize
      /\ Len(Page) > 0 => \E q \in Cuts(slices) : Cardinality(InFront(q)) = call.offset + Len(Page)
  BY PageIs DEF IndInv
<1> DEFINE offset == call.offset
<1>4. out \in Seq(Slice) /\ Len(out) = offset + Len(Page) /\ IDsOf(out) = listed /\ offset \in Nat
  <2>1. call.out \in Seq(Slice) /\ offset \in Nat /\ Len(call.out) = offset
    BY <1>2
  <2>2. out \in Seq(Slice) /\ Len(out) = Len(call.out) + Len(Page)
    BY <1>3, <2>1, ConcatProperties
  <2>3. IDsOf(out) = listed
    BY <1>3, <2>1, IDsOfBoth
  <2>4. QED
    BY <2>1, <2>2, <2>3
<1>5. Slice' = Slice
  BY <1>2 DEF Slice
<1>6. Len(slices) \in Nat /\ Len(slices) \in Cuts(slices)
  <2>1. slices \in Seq(Slice)
    BY <1>2
  <2>2. Len(slices) \in Nat
    BY <2>1, LenProperties
  <2>3. QED
    BY <2>2 DEF Cuts
<1>7. Len(out) - Cardinality(listed) <= entered
  <2>1. IsFiniteSet(listed) /\ Cardinality(listed) \in Nat
    BY <1>4, IDsFinite
  <2>2. CASE Len(Page) = 0
    <3>1. IDsOf(Page) = {}
      BY <1>3, <2>2, LenProperties DEF IDsOf
    <3>2. listed = IDsOf(call.out)
      BY <3>1
    <3>3. Len(call.out) - Cardinality(IDsOf(call.out)) <= entered
      BY <1>2 DEF IndInv, ListingInv
    <3>4. Len(out) = Len(call.out)
      <4>1. Len(call.out) = offset
        BY <1>2
      <4> HIDE DEF offset, out
      <4>2. Len(out) = offset
        BY <1>4, <2>2
      <4>3. QED
        BY <4>1, <4>2
    <3>5. QED
      BY <3>2, <3>3, <3>4
  <2>3. CASE Len(Page) # 0
    <3>1. PICK q \in Cuts(slices) : Cardinality(InFront(q)) = call.offset + Len(Page)
      BY <1>3, <2>3
    <3>2. Cardinality(InFront(q)) <= call.offset + PageSize
      <4>1. Cardinality(InFront(q)) = offset + Len(Page)
        BY <3>1
      <4> HIDE DEF offset
      <4>2. Cardinality(InFront(q)) <= offset + PageSize
        BY <1>1, <1>3, <1>4, <4>1
      <4>3. QED
        BY <4>2 DEF offset
    <3>3. Cardinality(InFront(q)) <= entered + Cardinality(listed \ Behind(slices, q))
      BY <1>2, <3>2, PageAdvances
    <3> DEFINE all == Cardinality(listed)
               behindNot == Cardinality(listed \ Behind(slices, q))
    <3>4. behindNot \in Nat /\ all \in Nat /\ behindNot <= all
      <4>1. IsFiniteSet(listed \ Behind(slices, q))
        BY <2>1, FS_Difference
      <4>2. QED
        BY <2>1, <4>1, FS_Subset, FS_CardinalityType
    <3>5. Len(out) = Cardinality(InFront(q)) /\ entered \in Nat
      BY <1>2, <1>4, <3>1
    <3>6. Len(out) <= entered + behindNot
      BY <3>3, <3>5
    <3>7. Len(out) \in Nat
      BY <1>4, LenProperties
    <3> DEFINE len == Len(out)
    <3> HIDE DEF all, behindNot, len
    <3>8. len - all <= entered
      BY <3>4, <3>5, <3>6, <3>7 DEF len
    <3>9. QED
      BY <3>8 DEF all, len
  <2>4. QED
    BY <2>2, <2>3
<1> HIDE DEF out, offset
<1>8. CASE IsLast(Page)
  <2>1. /\ call' = [call EXCEPT !.out = out, !.pc = "returned"]
        /\ call'.out = out /\ call'.pc = "returned" /\ call'.error = "" /\ call'.request = call.request
    BY <1>2, <1>8 DEF RequestPage, out
  <2>2. TypeOK'
    BY <1>2, <1>4, <1>5, <2>1 DEF IndInv, TypeOK
  <2>3. AlwaysInv'
    BY <1>2, <2>1 DEF IndInv, AlwaysInv
  <2>4. ListingInv'
    BY <2>1 DEF ListingInv
  <2>5. MissedAtMostLeft'
    <3>1. Cardinality((always \cap InFront(Len(slices))) \ listed) <= left
      BY <1>2, <1>3, <1>6, <1>8, PageAdvances DEF IsLast
    <3>2. always \cap InFront(Len(slices)) = always
      BY DEF IndInv, AlwaysInv, Matching, InFront
    <3>3. Cardinality(always \ listed) <= left
      BY <3>1, <3>2
    <3>4. always' = always /\ left' = left /\ IDsOf(call.out)' = listed
      BY <1>2, <1>4, <2>1
    <3>5. QED
      BY <3>3, <3>4 DEF MissedAtMostLeft
  <2>6. TwiceAtMostEntered'
    BY <1>2, <1>4, <1>7, <2>1 DEF TwiceAtMostEntered
  <2>7. QED
    BY <2>2, <2>3, <2>4, <2>5, <2>6 DEF IndInv
<1>9. CASE ~IsLast(Page)
  <2>1. /\ call' = [call EXCEPT !.out = out, !.pc = "token", !.offset = call.offset + PageSize]
        /\ call'.out = out /\ call'.pc = "token" /\ call'.error = "" /\ call'.request = call.request
        /\ call'.offset = call.offset + PageSize
    BY <1>2, <1>9 DEF RequestPage, NextOffset, out
  <2>2. Len(Page) = PageSize
    BY <1>1, <1>3, <1>9 DEF IsLast
  <2>3. TypeOK'
    <3>1. call.offset + PageSize \in Nat /\ Len(out) = call.offset + PageSize
      <4>1. offset + PageSize \in Nat /\ Len(out) = offset + PageSize
        BY <1>1, <1>4, <2>2
      <4>2. QED
        BY <4>1 DEF offset
    <3>2. QED
      BY <1>2, <1>4, <1>5, <2>1, <3>1 DEF IndInv, TypeOK
  <2>4. AlwaysInv'
    BY <1>2, <2>1 DEF IndInv, AlwaysInv
  <2>5. ListingInv'
    <3>1. ASSUME NEW q \in Cuts(slices) PROVE CutInv(q)'
      <4>1. Cardinality(InFront(q)) <= call.offset + PageSize =>
              /\ Cardinality((always \cap InFront(q)) \ listed) <= left
              /\ Cardinality(InFront(q)) <= entered + Cardinality(listed \ Behind(slices, q))
        BY <1>2, PageAdvances
      <4>2. InFront(q)' = InFront(q) /\ IDsOf(call.out)' = listed /\ Behind(slices, q)' = Behind(slices, q)
        BY <1>2, <1>4, <2>1 DEF InFront
      <4>3. QED
        BY <1>2, <2>1, <4>1, <4>2 DEF CutInv
    <3>2. QED
      BY <1>2, <1>4, <1>7, <2>1, <3>1 DEF ListingInv
  <2>6. MissedAtMostLeft' /\ TwiceAtMostEntered'
    BY <2>1 DEF MissedAtMostLeft, TwiceAtMostEntered, Listed
  <2>7. QED
    BY <2>3, <2>4, <2>5, <2>6 DEF IndInv
<1>10. QED
  BY <1>8, <1>9

-----------------------------------------------------------------------------
(* The theorems.                                                           *)

\* Before the first call the slices are numbered in the order of their creation.
LEMMA InitInv == Init => IndInv
<1> SUFFICES ASSUME Init PROVE IndInv
  OBVIOUS
<1>1. created \in 0..MaxSlices /\ MaxSlices \in Nat
  BY SizesAssumption DEF Init
<1>2. PICK attributes \in [1..created -> [name : Names, state : States]] :
        slices = [k \in 1..created |-> [id |-> k, name |-> attributes[k].name, state |-> attributes[k].state]]
  BY DEF Init
<1>3. slices \in Seq(Slice) /\ Distinct(slices)
  <2>1. \A k \in 1..created :
          [id |-> k, name |-> attributes[k].name, state |-> attributes[k].state] \in Slice
    BY <1>2 DEF Slice
  <2>2. created \in Nat
    BY <1>1
  <2>3. slices \in Seq(Slice)
    BY <1>2, <2>1, <2>2
  <2>4. Distinct(slices)
    BY <1>2 DEF Distinct
  <2>5. QED
    BY <2>3, <2>4
<1>4. PICK r \in Requests : call = [request |-> r, pc |-> "idle", offset |-> 0, out |-> << >>, error |-> ""]
  BY DEF Init
<1>5. << >> \in Seq(Slice) /\ Len(<< >>) = 0
  BY EmptySeq
<1>6. TypeOK
  <2>1. call \in [request : Requests, pc : {"idle", "token", "request", "returned"},
                  offset : Nat, out : Seq(Slice), error : Errors \cup {""}]
        /\ call.pc = "idle" /\ call.error = ""
    BY <1>4, <1>5
  <2>2. always \subseteq 1..created /\ {left, entered, changes} \subseteq Nat
    <3>1. always = {} /\ left = 0 /\ entered = 0 /\ changes = 0
      BY DEF Init
    <3>2. QED
      BY <3>1
  <2>3. QED
    BY <1>1, <1>3, <2>1, <2>2 DEF TypeOK, Distinct
<1>7. AlwaysInv
  BY DEF AlwaysInv, Init
<1>8. ListingInv /\ MissedAtMostLeft /\ TwiceAtMostEntered
  BY <1>4 DEF ListingInv, MissedAtMostLeft, TwiceAtMostEntered, Listed
<1>9. QED
  BY <1>6, <1>7, <1>8 DEF IndInv

\* One lemma per action.
LEMMA NextInv == IndInv /\ [Next]_vars => IndInv'
<1> SUFFICES ASSUME IndInv, [Next]_vars PROVE IndInv'
  OBVIOUS
<1>1. CASE Orchestrator
  BY <1>1, OrchestratorKeeps
<1>2. ASSUME NEW r \in Requests, ListSlices(r) PROVE IndInv'
  BY <1>2, ListSlicesKeeps
<1>3. CASE Exchange
  BY <1>3, TokenKeeps, RequestPageKeeps, RequestFailsKeeps DEF Exchange
<1>4. CASE Return
  BY <1>4, ReturnKeeps
<1>5. CASE UNCHANGED vars
  <2>1. Slice' = Slice
    BY <1>5 DEF Slice, vars
  <2>2. \A q : CutInv(q)' <=> CutInv(q)
    BY <1>5 DEF CutInv, InFront, vars
  <2>3. QED
    BY <1>5, <2>1, <2>2 DEF vars, IndInv, TypeOK, AlwaysInv, ListingInv, MissedAtMostLeft,
       TwiceAtMostEntered, Listed
<1>6. QED
  BY <1>1, <1>2, <1>3, <1>4, <1>5 DEF Next

\* What is listed keeps up with every cut.
LEMMA InductiveInvariant == Spec => []IndInv
<1>1. QED
  BY InitInv, NextInv, PTL DEF Spec

\* A call that failed returns no slices, one that goes on has taken full pages
\* only, and no two slices of the orchestrator share an ID.
THEOREM TypeCorrect == Spec => []TypeOK
<1>1. IndInv => TypeOK
  BY DEF IndInv
<1>2. QED
  BY <1>1, InductiveInvariant, PTL

\* What ListSlices leaves out, of all that matched while it ran, is at most what
\* stopped matching behind its back, whatever the list and the page size.
THEOREM MissesAreExplained == Spec => []MissedAtMostLeft
<1>1. IndInv => MissedAtMostLeft
  BY DEF IndInv
<1>2. QED
  BY <1>1, InductiveInvariant, PTL

\* What it lists more than once is at most what began to match in front of it.
THEOREM RepeatsAreExplained == Spec => []TwiceAtMostEntered
<1>1. IndInv => TwiceAtMostEntered
  BY DEF IndInv
<1>2. QED
  BY <1>1, InductiveInvariant, PTL

=============================================================================
