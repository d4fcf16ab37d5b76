-------------------------- MODULE ListStorage_proofs --------------------------
(***************************************************************************)
(* Theorems about ListStorage and ListAlloc.                               *)
(*                                                                         *)
(* For every size of the rings and all byte strings: no operation of the   *)
(* list leaves the offsets in disorder, loses count of the bytes, or       *)
(* writes outside of its memory, and each does to the items what ListSpec  *)
(* says (TypeOK, LayoutInv, CopyOffsets, LVerify and ImplementsList of     *)
(* ListStorage).  The lemmas about the operators are in ListOps_proofs.    *)
(*                                                                         *)
(* For lists of any size: what is stored fits, in offsets of the width     *)
(* that every call infers from the allocation's size, and one resize is    *)
(* enough (AllocFits and GrowsEnough of ListAlloc).  alloc_size() ends     *)
(* after one turn more at most: sizes are powers of two, and of those only *)
(* 32768 slots with 65536 bytes have a sum that is read as another width;  *)
(* the next power of two for the bytes is not.  Why the invariant is       *)
(* inductive is then a matter of what was rounded up.                      *)
(***************************************************************************)
EXTENDS ListStorage, ListAlloc, ListOps_proofs

-----------------------------------------------------------------------------
(* The theorems. *)

\* The inductive invariant.
IInv == TypeOK /\ LayoutInv

\* init() establishes the invariant.
LEMMA InitInv == Init => IInv
<1> SUFFICES ASSUME Init PROVE IInv
  OBVIOUS
<1>1. PICK size \in Sizes : list = EmptyList(size[1], size[2], Fill)
  BY DEF Init
<1>2. size[1] \in Nat \ {0, 1} /\ size[2] \in Nat \ {0, 1} /\ Fill \in Byte
  BY <1>1, ListAssumption
<1>3. WellFormed(list) /\ Layout(list)
  BY <1>1, <1>2, EmptyLayout
<1>4. ret.status \in ListStatus
  BY DEF Init, Ok, ListStatus
<1> QED BY <1>3, <1>4 DEF IInv, TypeOK, LayoutInv

\* Every call preserves it.
LEMMA NextInv == IInv /\ [Next]_vars => IInv'
<1> SUFFICES ASSUME IInv, [Next]_vars PROVE IInv'
  OBVIOUS
<1> DEFINE Good(l) == WellFormed(l) /\ Layout(l)
<1>1. Good(list) /\ ret.status \in ListStatus /\ list.count \in Nat
      /\ Values \subseteq Seq(Byte) /\ Fill \in Byte
  BY ListAssumption, HeaderType DEF IInv, TypeOK, LayoutInv
<1>2. \A v : OkVal(v).status \in ListStatus /\ OkPos(v).status \in ListStatus
  BY DEF OkVal, OkPos, Ok, ListStatus
<1>3. /\ Ok.status \in ListStatus
      /\ Failed(LIST_FULL).status \in ListStatus
      /\ Failed(LIST_NOT_FOUND).status \in ListStatus
  BY DEF Failed, Ok, ListStatus
<1>4. ASSUME NEW l, NEW r, Good(l), r.status \in ListStatus, Reply(l, r) PROVE IInv'
  BY <1>4 DEF IInv, TypeOK, LayoutInv, Reply
<1> HIDE DEF Good
<1>5. ASSUME NEW v \in Values, RPush(v) PROVE IInv'
  <2>1. Good(RPushItem(list, v)) \/ Full(list, Len(v))
    BY <1>1, RPushLayout DEF Good
  <2> QED BY <2>1, <1>1, <1>3, <1>4, <1>5 DEF RPush
<1>6. ASSUME NEW v \in Values, LPush(v) PROVE IInv'
  <2>1. Good(LPushItem(list, v)) \/ Full(list, Len(v))
    BY <1>1, LPushLayout DEF Good
  <2> QED BY <2>1, <1>1, <1>3, <1>4, <1>6 DEF LPush
<1>7. ASSUME LPop PROVE IInv'
  <2>1. Good(LPopItem(list)) \/ list.count = 0
    BY <1>1, LPopLayout DEF Good
  <2> QED BY <2>1, <1>1, <1>2, <1>3, <1>4, <1>7 DEF LPop
<1>8. ASSUME RPop PROVE IInv'
  <2>1. Good(RPopItem(list)) \/ list.count = 0
    BY <1>1, RPopLayout DEF Good
  <2> QED BY <2>1, <1>1, <1>2, <1>3, <1>4, <1>8 DEF RPop
<1>9. ASSUME NEW n \in Positions, LIndex(n) PROVE IInv'
  BY <1>1, <1>2, <1>3, <1>4, <1>9 DEF LIndex
<1>10. ASSUME NEW n \in Positions, NEW v \in Values, LSet(n, v) PROVE IInv'
  <2>1. CASE n >= list.count
    BY <2>1, <1>1, <1>3, <1>4, <1>10 DEF LSet
  <2>2. CASE ~ (n >= list.count)
    <3> DEFINE amt == Len(v) - GetSize(list, n)
    <3>1. n \in 0..(list.count - 1)
      BY <2>2, <1>1 DEF Positions
    <3>2. ~ (amt > 0 /\ DataFull(list, amt)) => Good(LSetItem(list, n, v))
      BY <3>1, <1>1, LSetLayout DEF Good
    <3>3. \/ Reply(list, Failed(LIST_FULL)) /\ amt > 0 /\ DataFull(list, amt)
          \/ Reply(LSetItem(list, n, v), Ok) /\ ~ (amt > 0 /\ DataFull(list, amt))
      BY <2>2, <1>10 DEF LSet
    <3> HIDE DEF amt
    <3> QED BY <3>2, <3>3, <1>1, <1>3, <1>4
  <2> QED BY <2>1, <2>2
<1>11. ASSUME NEW n \in Positions, LRem(n) PROVE IInv'
  <2>1. CASE n < list.count
    <3>1. n \in 0..(list.count - 1)
      BY <2>1, <1>1 DEF Positions
    <3>2. Good(LRemItem(list, n))
      BY <3>1, <1>1, LRemLayout DEF Good
    <3> QED BY <2>1, <3>2, <1>3, <1>4, <1>11 DEF LRem
  <2>2. CASE ~ (n < list.count)
    BY <2>2, <1>1, <1>3, <1>4, <1>11 DEF LRem
  <2> QED BY <2>1, <2>2
<1>12. ASSUME NEW n \in Positions
       PROVE  (IF n > list.count THEN list.count ELSE n) \in 0..list.count
  BY <1>1 DEF Positions
<1>13. ASSUME NEW n \in Positions, LTrim(n) PROVE IInv'
  <2> DEFINE k == IF n > list.count THEN list.count ELSE n
  <2>1. k \in 0..list.count /\ Reply(LTrimItems(list, k), Ok)
    BY <1>12, <1>13 DEF LTrim
  <2> HIDE DEF k
  <2>2. Good(LTrimItems(list, k))
    BY <2>1, <1>1, LTrimLayout DEF Good
  <2> QED BY <2>1, <2>2, <1>3, <1>4
<1>14. ASSUME NEW n \in Positions, RTrim(n) PROVE IInv'
  <2> DEFINE k == IF n > list.count THEN list.count ELSE n
  <2>1. k \in 0..list.count /\ Reply(RTrimItems(list, k), Ok)
    BY <1>12, <1>14 DEF RTrim
  <2> HIDE DEF k
  <2>2. Good(RTrimItems(list, k))
    BY <2>1, <1>1, RTrimLayout DEF Good
  <2> QED BY <2>1, <2>2, <1>3, <1>4
<1>15. ASSUME NEW v \in Values, NEW pos \in Positions, ScanFwd(v, pos) PROVE IInv'
  BY <1>1, <1>2, <1>3, <1>4, <1>15 DEF ScanFwd
<1>16. ASSUME NEW v \in Values, NEW pos \in Positions, ScanRev(v, pos) PROVE IInv'
  BY <1>1, <1>2, <1>3, <1>4, <1>16 DEF ScanRev
<1>17. ASSUME NEW piv \in Values, NEW v \in Values, NEW after \in BOOLEAN,
              LInsert(piv, v, after)
       PROVE  IInv'
  <2> DEFINE n == Min(Matches(piv))
  <2>1. CASE Matches(piv) = {} \/ Full(list, Len(v))
    BY <2>1, <1>1, <1>3, <1>4, <1>17 DEF LInsert
  <2>2. CASE ~ (Matches(piv) = {} \/ Full(list, Len(v)))
    <3>1. Matches(piv) \in SUBSET (0..(list.count - 1))
      BY DEF Matches
    <3>2. n \in 0..(list.count - 1)
      <4>1. Matches(piv) \in SUBSET Nat
        BY <3>1, <1>1
      <4>2. Min(Matches(piv)) \in Matches(piv)
        BY <4>1, <2>2, LeastElement
      <4> QED BY <3>1, <4>2
    <3> HIDE DEF n
    <3>3. /\ Good(InsertItem(list, n, v)) /\ Good(LPushItem(list, v))
          /\ n # 0 => Good(InsertItem(list, n - 1, v))
      <4>1. n # 0 => n - 1 \in 0..(list.count - 1)
        BY <3>2, <1>1
      <4> QED BY <2>2, <3>2, <4>1, <1>1, InsertLayout, LPushLayout DEF Good
    <3>4. \/ Reply(InsertItem(list, n, v), Ok)
          \/ Reply(LPushItem(list, v), Ok)
          \/ n # 0 /\ Reply(InsertItem(list, n - 1, v), Ok)
      BY <2>2, <1>17 DEF LInsert, n
    <3> QED BY <3>3, <3>4, <1>3, <1>4
  <2> QED BY <2>1, <2>2
<1>18. ASSUME NEW size \in Sizes, Copy(size) PROVE IInv'
  <2>1. size[1] \in Nat \ {0, 1} /\ size[2] \in Nat \ {0, 1}
    BY <1>18, ListAssumption
  <2>2. Good(CopyList(list, size[1], size[2], Fill))
    BY <2>1, <1>1, <1>18, CopyLayout DEF Good, Copy
  <2> QED BY <2>2, <1>3, <1>4, <1>18 DEF Copy
<1>19. CASE UNCHANGED vars
  BY <1>19 DEF vars, IInv, TypeOK, LayoutInv
<1> QED BY <1>5, <1>6, <1>7, <1>8, <1>9, <1>10, <1>11, <1>13, <1>14, <1>15, <1>16,
           <1>17, <1>18, <1>19 DEF Next

\* However the callers push, pop, insert, set, trim and copy, with byte
\* strings and rings of any size, no operation writes outside of idx[] and
\* blob[] and the header stays within its ranges.
THEOREM TypeCorrect == Spec => []TypeOK
<1>1. IInv => TypeOK
  BY DEF IInv
<1> QED BY <1>1, InitInv, NextInv, PTL DEF Spec

\* And the offsets never run backwards around the ring: the last one is
\* data_len bytes from the first, with a byte and an index slot to spare, so
\* that what full() and data_full() test is what is really left.
THEOREM LayoutCorrect == Spec => []LayoutInv
<1>1. IInv => LayoutInv
  BY DEF IInv
<1> QED BY <1>1, InitInv, NextInv, PTL DEF Spec

\* The offsets copy() rebuilds by measuring from the head are the sums of the
\* sizes before them, for every list the operations can lead to.
THEOREM CopyCorrect == Spec => []CopyOffsets
<1>1. IInv => CopyOffsets
  <2> SUFFICES ASSUME IInv PROVE CopyOffsets
    OBVIOUS
  <2>1. WellFormed(list) /\ Layout(list) /\ list.count \in Nat
    BY HeaderType DEF IInv, TypeOK, LayoutInv
  <2>2. Offset(list, 0) = 0
    BY DEF Offset
  <2>3. ASSUME NEW n \in 0..(list.count - 1)
        PROVE  Offset(list, n + 1) = Offset(list, n) + GetSize(list, n)
    <3>1. n \in 0..list.count /\ n + 1 \in 0..list.count
      BY <2>1
    <3>2. /\ Offset(list, n) = Distance(list, n)
          /\ Offset(list, n + 1) = Distance(list, n + 1)
      BY <2>1, <3>1, OffsetDistance
    <3>3. GetSize(list, n) = Distance(list, n + 1) - Distance(list, n)
      BY <2>1, SizeDistance
    <3>4. Distance(list, n) \in Int /\ Distance(list, n + 1) \in Int
      <4>1. list.data_len \in Nat
        BY <2>1, LayoutFacts
      <4>2. /\ Distance(list, n) \in 0..list.data_len
            /\ Distance(list, n + 1) \in 0..list.data_len
        BY <2>1, <3>1, LayoutElim
      <4> QED BY <4>1, <4>2
    <3> QED BY <3>2, <3>3, <3>4
  <2> QED BY <2>2, <2>3 DEF CopyOffsets
<1> QED BY <1>1, InitInv, NextInv, PTL DEF Spec

-----------------------------------------------------------------------------
\* lverify() finds nothing wrong: every item lies inside of the buffer, and the
\* sizes it adds up are data_len.
THEOREM VerifyCorrect == Spec => []LVerify
<1>1. IInv => LVerify
  BY LayoutVerified DEF IInv, TypeOK, LayoutInv, LVerify
<1> QED BY <1>1, InitInv, NextInv, PTL DEF Spec

-----------------------------------------------------------------------------
(* What ListSpec measures of the items. *)

\* Their bytes add up to data_len.
LEMMA TotalIsDistance ==
  ASSUME NEW l, WellFormed(l), Layout(l)
  PROVE  Abs!Total(Items(l)) = l.data_len
<1> DEFINE q == Items(l)
           Round(f) == [n \in 0..Len(q) |-> IF n = 0 THEN 0 ELSE f[n - 1] + Len(q[n])]
           sum == CHOOSE f : f = Round(f)
           D == [n \in 0..Len(q) |-> Distance(l, n)]
<1>1. /\ l.count \in Nat /\ l.data_len \in Nat /\ 0 \in 0..l.count /\ l.count \in 0..l.count
      /\ Len(q) = l.count
  BY HeaderType, ItemsType
<1>2. /\ Distance(l, 0) = 0 /\ Distance(l, l.count) = l.data_len
      /\ \A n \in 0..l.count : Distance(l, n) \in 0..l.data_len
  BY LayoutElim
<1>3. ASSUME NEW n \in 0..l.count, n # 0
      PROVE  /\ n - 1 \in 0..l.count
             /\ Distance(l, n) = Distance(l, n - 1) + Len(q[n])
  <2>1. n - 1 \in 0..(l.count - 1) /\ n - 1 \in 0..l.count /\ (n - 1) + 1 = n /\ n \in 1..l.count
    BY <1>1, <1>3
  <2>2. GetSize(l, n - 1) = Distance(l, n) - Distance(l, n - 1)
    BY <2>1, SizeDistance
  <2>3. Distance(l, n) \in Nat /\ Distance(l, n - 1) \in Nat
    BY <1>1, <1>2, <2>1
  <2>4. q[n] = Item(l, n - 1) /\ Len(Item(l, n - 1)) = GetSize(l, n - 1)
    BY <2>1, ItemsType, ItemBytes
  <2> HIDE DEF q
  <2> QED BY <2>1, <2>2, <2>3, <2>4
<1> HIDE DEF q
<1>4. D = Round(D)
  <2>1. ASSUME NEW n \in 0..Len(q)
        PROVE  D[n] = IF n = 0 THEN 0 ELSE D[n - 1] + Len(q[n])
    BY <1>1, <1>2, <1>3
  <2> QED BY <2>1
<1>5. sum = Round(sum)
  <2> HIDE DEF D
  <2>1. \E f : f = Round(f)
    BY <1>4
  <2> HIDE DEF Round
  <2> QED BY <2>1
<1>6. Abs!Total(q) = sum[Len(q)]
  BY DEF Abs!Total
<1> HIDE DEF sum, D
<1>7. sum[0] = 0 /\ \A n \in 0..l.count : n # 0 => sum[n] = sum[n - 1] + Len(q[n])
  BY <1>1, <1>5
<1>8. \A n \in 0..l.count : sum[n] = Distance(l, n)
  <2> DEFINE S == {n \in Nat : n <= l.count => sum[n] = Distance(l, n)}
  <2>1. ASSUME NEW n \in Nat, \A m \in 0..(n - 1) : m \in S
        PROVE  n \in S
    <3>1. CASE n = 0
      BY <1>2, <1>7, <3>1
    <3>2. CASE n # 0 /\ n <= l.count
      <4>1. n \in 0..l.count /\ n - 1 \in 0..(n - 1) /\ n - 1 <= l.count
        BY <1>1, <3>2
      <4>2. sum[n - 1] = Distance(l, n - 1)
        BY <2>1, <4>1
      <4> QED BY <1>3, <1>7, <3>2, <4>1, <4>2
    <3>3. CASE ~ (n <= l.count)
      BY <3>3
    <3> QED BY <3>1, <3>2, <3>3
  <2>2. S = Nat
    <3>1. S \in SUBSET Nat
      OBVIOUS
    <3> HIDE DEF S
    <3> QED BY <2>1, <3>1, Induction
  <2> QED BY <1>1, <2>2
<1> QED BY <1>1, <1>2, <1>6, <1>8 DEF q

\* Max() of a set of positions.
LEMMA GreatestElement ==
  ASSUME NEW S \in SUBSET Nat, S # {}, NEW b \in Nat, \A x \in S : x <= b
  PROVE  Max(S) \in S /\ \A y \in S : Max(S) >= y
<1> DEFINE T == {b - x : x \in S}
<1>1. T \in SUBSET Nat /\ T # {}
  <2>1. ASSUME NEW x \in S PROVE b - x \in Nat
    <3>1. x \in Nat /\ x <= b
      OBVIOUS
    <3> QED BY <3>1
  <2>2. PICK x : x \in S
    OBVIOUS
  <2>3. b - x \in T
    BY <2>2
  <2> QED BY <2>1, <2>3
<1>2. Min(T) \in T /\ \A y \in T : Min(T) <= y
  <2> HIDE DEF T
  <2> QED BY <1>1, LeastElement
<1>3. PICK x \in S : Min(T) = b - x
  BY <1>2
<1>4. \A y \in S : x >= y
  <2> TAKE y \in S
  <2>1. b - y \in T
    OBVIOUS
  <2>2. b - x <= b - y /\ x \in Nat /\ y \in Nat
    BY <1>2, <1>3, <2>1
  <2> QED BY <2>2
<1> QED BY <1>4 DEF Max

\* Positions count from 0, sequences from 1.
LEMMA ShiftedMin ==
  ASSUME NEW S \in SUBSET Nat, S # {}, NEW T \in SUBSET Nat,
         \A n \in S : n + 1 \in T, \A n \in T : n - 1 \in S
  PROVE  Min(T) = Min(S) + 1 /\ T # {}
<1>1. Min(S) \in S /\ \A y \in S : Min(S) <= y
  BY LeastElement
<1>2. Min(S) + 1 \in T /\ Min(S) \in Nat
  BY <1>1
<1>3. Min(T) \in T /\ \A y \in T : Min(T) <= y
  BY <1>2, LeastElement
<1>4. Min(T) - 1 \in S /\ Min(T) \in Nat
  BY <1>3
<1>5. Min(T) <= Min(S) + 1 /\ Min(S) <= Min(T) - 1
  BY <1>1, <1>2, <1>3, <1>4
<1> QED BY <1>2, <1>4, <1>5

LEMMA ShiftedMax ==
  ASSUME NEW S \in SUBSET Nat, S # {}, NEW T \in SUBSET Nat,
         \A n \in S : n + 1 \in T, \A n \in T : n - 1 \in S,
         NEW b \in Nat, \A x \in S : x <= b
  PROVE  Max(T) = Max(S) + 1 /\ T # {}
<1>1. Max(S) \in S /\ \A y \in S : Max(S) >= y
  BY GreatestElement
<1>2. Max(S) + 1 \in T /\ Max(S) \in Nat
  BY <1>1
<1>3. \A x \in T : x <= b + 1
  <2> TAKE x \in T
  <2>1. x - 1 <= b /\ x \in Nat
    OBVIOUS
  <2> QED BY <2>1
<1>4. Max(T) \in T /\ \A y \in T : Max(T) >= y
  <2>1. b + 1 \in Nat
    OBVIOUS
  <2> QED BY <1>2, <1>3, <2>1, GreatestElement
<1>5. Max(T) - 1 \in S /\ Max(T) \in Nat
  BY <1>4
<1>6. Max(T) >= Max(S) + 1 /\ Max(S) >= Max(T) - 1
  BY <1>1, <1>2, <1>4, <1>5
<1> QED BY <1>2, <1>5, <1>6

\* equals() is exact when the bytes are in one piece.
LEMMA WholeMatches ==
  ASSUME NEW l, WellFormed(l), Layout(l), NEW n \in 0..(l.count - 1), NEW v \in Seq(Byte),
         StartOf(l, n) + GetSize(l, n) <= l.data_size
  PROVE  (GetSize(l, n) = Len(v) /\ Equals(l, StartOf(l, n), v)) <=> Item(l, n) = v
<1>1. Item(l, n) \in Seq(Byte) /\ Len(Item(l, n)) = GetSize(l, n)
  BY ItemBytes
<1>2. CASE GetSize(l, n) = Len(v)
  BY <1>2 DEF Equals, Item
<1>3. CASE GetSize(l, n) # Len(v)
  BY <1>1, <1>3
<1> QED BY <1>2, <1>3

\* A search may err about torn items alone, and takes only those of the right
\* size for equal.
Odds(v) == {n \in Torn : n - 1 \in Matches(v)}

LEMMA SearchFound ==
  ASSUME WellFormed(list), Layout(list), NEW v \in Seq(Byte)
  PROVE  /\ Odds(v) \in Abs!Odd(v)
         /\ Abs!Found(v, Odds(v)) = {n \in 1..list.count : n - 1 \in Matches(v)}
<1>1. /\ Contents = Items(list) /\ DOMAIN Contents = 1..list.count /\ list.count \in Nat
      /\ \A n \in 1..list.count : Contents[n] = Item(list, n - 1)
  BY HeaderType DEF Contents, Items
<1>2. \A n \in 1..list.count : n - 1 \in 0..(list.count - 1)
  BY <1>1
<1>3. ASSUME NEW n \in Odds(v) PROVE n \in Torn /\ Len(Contents[n]) = Len(v)
  <2>1. n \in Torn /\ n - 1 \in Matches(v) /\ n \in 1..list.count
    BY <1>3 DEF Odds, Torn
  <2>2. n - 1 \in 0..(list.count - 1) /\ GetSize(list, n - 1) = Len(v)
    BY <2>1 DEF Matches
  <2>3. Len(Item(list, n - 1)) = Len(v)
    BY <2>2, ItemBytes
  <2> QED BY <1>1, <2>1, <2>3
<1>4. Odds(v) \in Abs!Odd(v)
  BY <1>3 DEF Abs!Odd
<1>5. ASSUME NEW n \in 1..list.count, n \notin Torn
      PROVE  Contents[n] = v <=> n - 1 \in Matches(v)
  <2>1. n - 1 \in 0..(list.count - 1)
    BY <1>2
  <2>2. StartOf(list, n - 1) + GetSize(list, n - 1) <= list.data_size
    <3>1. ~ (StartOf(list, n - 1) + GetSize(list, n - 1) > list.data_size)
      BY <1>5 DEF Torn
    <3>2. StartOf(list, n - 1) \in Int /\ GetSize(list, n - 1) \in Int /\ list.data_size \in Int
      <4>1. n - 1 \in Int /\ list.data_size \in Nat /\ list.data_len \in Nat
        BY <2>1, HeaderType
      <4>2. StartOf(list, n - 1) \in 0..(list.data_size - 1)
        BY <4>1, StartType
      <4>3. GetSize(list, n - 1) \in 0..list.data_len
        BY <2>1, SizeDistance
      <4> QED BY <4>1, <4>2, <4>3
    <3> QED BY <3>1, <3>2
  <2>3. (GetSize(list, n - 1) = Len(v) /\ Equals(list, StartOf(list, n - 1), v))
          <=> Item(list, n - 1) = v
    BY <2>1, <2>2, WholeMatches
  <2> QED BY <1>1, <2>1, <2>3 DEF Matches
<1>6. Abs!Found(v, Odds(v))
        = {n \in (1..list.count) \ Torn : Contents[n] = v} \cup Odds(v)
  BY <1>1 DEF Abs!Found
<1>7. Torn \subseteq 1..list.count
  BY DEF Torn
<1> QED BY <1>4, <1>5, <1>6, <1>7 DEF Odds

-----------------------------------------------------------------------------
(* Each call of the list is a step of ListSpec. *)

\* What ListSpec has of the list.
LEMMA AbstractList ==
  ASSUME IInv
  PROVE  /\ WellFormed(list) /\ Layout(list) /\ list.count \in Nat
         /\ Contents = Items(list) /\ Contents \in Seq(Seq(Byte)) /\ Len(Contents) = list.count
         /\ DOMAIN Contents = 1..list.count
         /\ Abs!Total(Contents) = list.data_len
         /\ \A n \in 0..(list.count - 1) : /\ Contents[n + 1] = Item(list, n)
                                           /\ Len(Contents[n + 1]) = GetSize(list, n)
<1>1. WellFormed(list) /\ Layout(list)
  BY DEF IInv, TypeOK, LayoutInv
<1>2. Contents = Items(list)
  BY DEF Contents, Items
<1>3. /\ Items(list) \in Seq(Seq(Byte)) /\ Len(Items(list)) = list.count /\ list.count \in Nat
      /\ \A n \in 1..list.count : Items(list)[n] = Item(list, n - 1)
  BY <1>1, ItemsType
<1>4. Abs!Total(Items(list)) = list.data_len
  BY <1>1, TotalIsDistance
<1>5. ASSUME NEW n \in 0..(list.count - 1)
      PROVE  Contents[n + 1] = Item(list, n) /\ Len(Contents[n + 1]) = GetSize(list, n)
  <2>1. n + 1 \in 1..list.count /\ (n + 1) - 1 = n
    BY <1>3
  <2>2. Contents[n + 1] = Item(list, n)
    BY <1>2, <1>3, <2>1
  <2>3. Len(Item(list, n)) = GetSize(list, n)
    BY <1>1, ItemBytes
  <2> QED BY <2>2, <2>3
<1>6. DOMAIN Contents = 1..list.count
  BY <1>3 DEF Contents
<1> QED BY <1>1, <1>2, <1>3, <1>4, <1>5, <1>6

LEMMA AbstractRoom ==
  ASSUME IInv, NEW size \in Int
  PROVE  /\ Abs!Room(size) <=> ~ DataFull(list, size)
         /\ Abs!HasRoom(size) <=> ~ Full(list, size)
<1>1. /\ Abs!Total(Contents) = list.data_len /\ Len(Contents) = list.count
      /\ list.count \in Nat /\ list.data_len \in Nat
      /\ list.index_size \in Nat /\ list.data_size \in Nat
  BY AbstractList, HeaderType
<1>2. Abs!Room(size) <=> list.data_len + size <= list.data_size - 1
  BY <1>1 DEF Abs!Room
<1>3. Abs!HasRoom(size) <=> list.count < list.index_size - 1 /\ Abs!Room(size)
  BY <1>1 DEF Abs!HasRoom
<1> HIDE DEF Contents
<1> QED BY <1>1, <1>2, <1>3 DEF DataFull, Full

\* The results are the same.
LEMMA AbstractResults ==
  /\ Abs!Ok = Ok
  /\ \A v : Abs!OkVal(v) = OkVal(v)
  /\ \A n : Abs!OkPos(n) = OkPos(n)
  /\ Abs!Failed("LIST_FULL") = Failed(LIST_FULL)
  /\ Abs!Failed("LIST_NOT_FOUND") = Failed(LIST_NOT_FOUND)
  BY DEF Abs!Ok, Abs!OkVal, Abs!OkPos, Abs!Failed, Ok, OkVal, OkPos, Failed,
         LIST_OK, LIST_FULL, LIST_NOT_FOUND

\* A call that leaves g behind.
LEMMA ReplyMap ==
  ASSUME NEW g, NEW r, Reply(g, r), g.index_size = list.index_size,
         g.data_size = list.data_size, NEW q, Items(g) = q
  PROVE  Abs!Reply(q, r)
<1>1. list' = g /\ ret' = r
  BY DEF Reply
<1>2. Contents' = q
  BY <1>1 DEF Contents, Items
<1>3. Torn' \in SUBSET DOMAIN q
  <2>1. DOMAIN q = 1..g.count
    BY DEF Items
  <2>2. Torn' \subseteq 1..g.count
    BY <1>1 DEF Torn
  <2> QED BY <2>1, <2>2
<1>4. <<list.index_size, list.data_size>>' = <<list.index_size, list.data_size>>
  BY <1>1
<1> QED BY <1>1, <1>2, <1>3, <1>4 DEF Abs!Reply, Abs!Stored

\* A call that changes nothing.
LEMMA StayMap ==
  ASSUME NEW r, Reply(list, r)
  PROVE  Abs!Reply(Contents, r)
<1>1. Items(list) = Contents
  BY DEF Items, Contents
<1> QED BY <1>1, ReplyMap

\* Calls store what may be stored.
LEMMA ValueType ==
  ASSUME NEW v \in Values
  PROVE  v \in Seq(Byte) /\ Len(v) \in Nat
  BY ListAssumption

LEMMA InitMap == Init => Abs!Init
<1> SUFFICES ASSUME Init PROVE Abs!Init
  OBVIOUS
<1>1. PICK size \in Sizes : list = EmptyList(size[1], size[2], Fill)
  BY DEF Init
<1>2. list.count = 0 /\ list.index_size = size[1] /\ list.data_size = size[2]
  BY <1>1 DEF EmptyList
<1>3. Contents = <<>>
  BY <1>2 DEF Contents
<1>4. Torn = {}
  BY <1>2 DEF Torn
<1>5. <<list.index_size, list.data_size>> \in Sizes
  <2>1. size = <<size[1], size[2]>>
    BY ListAssumption
  <2> QED BY <1>2, <2>1
<1>6. ret = Abs!Ok
  BY AbstractResults DEF Init
<1> QED BY <1>3, <1>4, <1>5, <1>6 DEF Abs!Init

LEMMA RPushMap ==
  ASSUME IInv, NEW v \in Values, RPush(v)
  PROVE  Abs!Push(v, "tail")
<1>1. v \in Seq(Byte) /\ Len(v) \in Int
  BY ValueType
<1>2. WellFormed(list) /\ Layout(list) /\ Contents = Items(list)
  BY AbstractList
<1>3. CASE Full(list, Len(v))
  <2>1. Abs!Reply(Contents, Abs!Failed("LIST_FULL"))
    BY <1>3, AbstractResults, StayMap DEF RPush
  <2> QED BY <1>1, <1>3, <2>1, AbstractRoom DEF Abs!Push
<1>4. CASE ~ Full(list, Len(v))
  <2>1. Items(RPushItem(list, v)) = Append(Contents, v)
    BY <1>1, <1>2, <1>4, RPushItems
  <2>2. RPushItem(list, v).index_size = list.index_size
        /\ RPushItem(list, v).data_size = list.data_size
    BY <1>1, <1>2, <1>4, RPushLayout DEF Shape
  <2>3. Abs!Reply(Append(Contents, v), Abs!Ok)
    BY <1>4, <2>1, <2>2, AbstractResults, ReplyMap DEF RPush
  <2> QED BY <1>1, <1>4, <2>3, AbstractRoom DEF Abs!Push
<1> QED BY <1>3, <1>4

LEMMA LPushMap ==
  ASSUME IInv, NEW v \in Values, LPush(v)
  PROVE  Abs!Push(v, "head")
<1>1. v \in Seq(Byte) /\ Len(v) \in Int
  BY ValueType
<1>2. WellFormed(list) /\ Layout(list) /\ Contents = Items(list)
  BY AbstractList
<1>3. CASE Full(list, Len(v))
  <2>1. Abs!Reply(Contents, Abs!Failed("LIST_FULL"))
    BY <1>3, AbstractResults, StayMap DEF LPush
  <2> QED BY <1>1, <1>3, <2>1, AbstractRoom DEF Abs!Push
<1>4. CASE ~ Full(list, Len(v))
  <2>1. Items(LPushItem(list, v)) = << v >> \o Contents
    BY <1>1, <1>2, <1>4, LPushItems
  <2>2. LPushItem(list, v).index_size = list.index_size
        /\ LPushItem(list, v).data_size = list.data_size
    BY <1>1, <1>2, <1>4, LPushLayout DEF Shape
  <2>3. Abs!Reply(<< v >> \o Contents, Abs!Ok)
    BY <1>4, <2>1, <2>2, AbstractResults, ReplyMap DEF LPush
  <2> QED BY <1>1, <1>4, <2>3, AbstractRoom DEF Abs!Push
<1> QED BY <1>3, <1>4

\* What SubSeq() returns.
LEMMA SliceElements ==
  ASSUME NEW S, NEW r \in Seq(S), NEW h \in Nat, NEW c \in Nat, h + c <= Len(r)
  PROVE  LET a == SubSeq(r, h + 1, h + c)
         IN  a \in Seq(S) /\ Len(a) = c /\ \A n \in 1..c : a[n] = r[h + n]
  OBVIOUS

\* The items that lpop() and rpop() leave, in the words of ListSpec.
LEMMA EndsOff ==
  ASSUME NEW S, NEW r \in Seq(S), r # <<>>
  PROVE  /\ Len(r) \in Nat /\ Len(r) # 0
         /\ Tail(r) = SubSeq(r, 1 + 1, 1 + (Len(r) - 1)) /\ Head(r) = r[1]
         /\ Abs!Front(r) = SubSeq(r, 0 + 1, 0 + (Len(r) - 1)) /\ Abs!Last(r) = r[Len(r)]
         /\ RemoveAt(r, 1) = Tail(r) /\ RemoveAt(r, Len(r)) = Abs!Front(r)
<1>1. Len(r) \in Nat /\ Len(r) # 0
  OBVIOUS
<1>2. Head(r) = r[1]
  OBVIOUS
<1>3. /\ Tail(r) \in Seq(S) /\ Len(Tail(r)) = Len(r) - 1
      /\ \A n \in 1..(Len(r) - 1) : Tail(r)[n] = r[n + 1]
  BY <1>1
<1> DEFINE a == SubSeq(r, 1 + 1, 1 + (Len(r) - 1))
           b == SubSeq(r, 0 + 1, 0 + (Len(r) - 1))
<1>5. /\ a \in Seq(S) /\ Len(a) = Len(r) - 1
      /\ \A n \in 1..(Len(r) - 1) : a[n] = r[n + 1]
  <2> DEFINE c == Len(r) - 1
  <2>1. c \in Nat /\ 1 + c <= Len(r) /\ 1 \in Nat /\ \A n \in 1..c : 1 + n = n + 1
    BY <1>1
  <2> HIDE DEF c
  <2>2. /\ SubSeq(r, 1 + 1, 1 + c) \in Seq(S) /\ Len(SubSeq(r, 1 + 1, 1 + c)) = c
        /\ \A n \in 1..c : SubSeq(r, 1 + 1, 1 + c)[n] = r[1 + n]
    BY <2>1, SliceElements
  <2> QED BY <2>1, <2>2 DEF c
<1>6. /\ b \in Seq(S) /\ Len(b) = Len(r) - 1
      /\ \A n \in 1..(Len(r) - 1) : b[n] = r[n]
  <2> DEFINE c == Len(r) - 1
  <2>1. c \in Nat /\ 0 + c <= Len(r) /\ 0 \in Nat /\ \A n \in 1..c : 0 + n = n
    BY <1>1
  <2> HIDE DEF c
  <2>2. /\ SubSeq(r, 0 + 1, 0 + c) \in Seq(S) /\ Len(SubSeq(r, 0 + 1, 0 + c)) = c
        /\ \A n \in 1..c : SubSeq(r, 0 + 1, 0 + c)[n] = r[0 + n]
    BY <2>1, SliceElements
  <2> QED BY <2>1, <2>2 DEF c
<1>7. Abs!Front(r) = b /\ Abs!Last(r) = r[Len(r)]
  <2>1. Abs!Front(r) = SubSeq(r, 1, Len(r) - 1)
    BY DEF Abs!Front
  <2>2. 0 + 1 = 1 /\ 0 + (Len(r) - 1) = Len(r) - 1
    BY <1>1
  <2> QED BY <2>1, <2>2 DEF Abs!Last
<1>8. Tail(r) = a
  <2> HIDE DEF a
  <2>1. Len(Tail(r)) = Len(a) /\ \A n \in 1..Len(Tail(r)) : Tail(r)[n] = a[n]
    BY <1>3, <1>5
  <2> QED BY <1>3, <1>5, <2>1, SameSequence
<1>9. RemoveAt(r, 1) = Tail(r)
  <2>1. 1 \in 1..Len(r)
    BY <1>1
  <2>2. /\ RemoveAt(r, 1) \in Seq(S) /\ Len(RemoveAt(r, 1)) = Len(r) - 1
        /\ \A n \in 1..(Len(r) - 1) : RemoveAt(r, 1)[n] = IF n < 1 THEN r[n] ELSE r[n + 1]
    BY <2>1, RemoveAtElements
  <2>3. \A n \in 1..(Len(r) - 1) : ~ (n < 1)
    BY <1>1
  <2>4. Len(RemoveAt(r, 1)) = Len(Tail(r))
        /\ \A n \in 1..Len(RemoveAt(r, 1)) : RemoveAt(r, 1)[n] = Tail(r)[n]
    BY <1>3, <2>2, <2>3
  <2> QED BY <1>3, <2>2, <2>4, SameSequence
<1>10. RemoveAt(r, Len(r)) = b
  <2> DEFINE c == RemoveAt(r, Len(r))
  <2>1. Len(r) \in 1..Len(r)
    BY <1>1
  <2>2. /\ c \in Seq(S) /\ Len(c) = Len(r) - 1
        /\ \A n \in 1..(Len(r) - 1) : c[n] = IF n < Len(r) THEN r[n] ELSE r[n + 1]
    BY <2>1, RemoveAtElements
  <2>3. \A n \in 1..(Len(r) - 1) : n < Len(r)
    BY <1>1
  <2> HIDE DEF b, c
  <2>4. Len(c) = Len(b) /\ \A n \in 1..Len(c) : c[n] = b[n]
    BY <1>6, <2>2, <2>3
  <2>5. c = b
    BY <1>6, <2>2, <2>4, SameSequence
  <2> QED BY <2>5 DEF c
<1> QED BY <1>1, <1>2, <1>7, <1>8, <1>9, <1>10

\* Cutting items off does not touch blob[].
LEMMA CutsKeepBytes ==
  ASSUME NEW l, WellFormed(l), NEW n
  PROVE  /\ LPopItem(l).blob = l.blob /\ RPopItem(l).blob = l.blob
         /\ LTrimItems(l, n).blob = l.blob /\ RTrimItems(l, n).blob = l.blob
  BY DEF LPopItem, RPopItem, LTrimItems, RTrimItems, TrimSize, WellFormed

\* lpop() and rpop() leave all items but one.
LEMMA PopItems ==
  ASSUME NEW l, WellFormed(l), Layout(l), l.count # 0
  PROVE  /\ Items(LPopItem(l)) = Tail(Items(l)) /\ Items(RPopItem(l)) = Abs!Front(Items(l))
         /\ Head(Items(l)) = Item(l, 0) /\ Abs!Last(Items(l)) = Item(l, l.count - 1)
         /\ RemoveAt(Items(l), 1) = Tail(Items(l))
         /\ RemoveAt(Items(l), l.count) = Abs!Front(Items(l))
         /\ Items(l) # <<>>
<1> DEFINE r == Items(l)
           S == Seq(Byte)
<1>1. /\ l.count \in Nat /\ Items(l) \in Seq(S) /\ Len(Items(l)) = l.count
      /\ \A n \in 1..l.count : Items(l)[n] = Item(l, n - 1)
  BY ItemsType
<1>2. Items(LPopItem(l)) = SubSeq(r, 1 + 1, 1 + (l.count - 1))
  <2>1. 1 \in 0..l.count /\ l.count - 1 \in 0..(l.count - 1)
    BY <1>1
  <2> DEFINE c == l.count - 1
             g == LPopItem(l)
             h == 1
  <2>2. /\ WellFormed(g) /\ Layout(g) /\ Shape(g, l, c, StartOf(l, h), Sliced(l, h, c))
        /\ g.blob = l.blob /\ h \in 0..l.count /\ c \in 0..(l.count - h)
    BY <2>1, LPopLayout, CutsKeepBytes
  <2> HIDE DEF g, c, r, h
  <2>3. Items(g) = SubSeq(Items(l), h + 1, h + c)
    BY <2>2, SliceItems
  <2> QED BY <2>3 DEF g, c, r, h
<1>3. Items(RPopItem(l)) = SubSeq(r, 0 + 1, 0 + (l.count - 1))
  <2>1. 0 \in 0..l.count /\ l.count - 1 \in 0..(l.count - 0)
    BY <1>1
  <2> DEFINE c == l.count - 1
             g == RPopItem(l)
             h == 0
  <2>2. /\ WellFormed(g) /\ Layout(g) /\ Shape(g, l, c, StartOf(l, h), Sliced(l, h, c))
        /\ g.blob = l.blob /\ h \in 0..l.count /\ c \in 0..(l.count - h)
    BY <2>1, RPopLayout, CutsKeepBytes
  <2> HIDE DEF g, c, r, h
  <2>3. Items(g) = SubSeq(Items(l), h + 1, h + c)
    BY <2>2, SliceItems
  <2> QED BY <2>3 DEF g, c, r, h
<1>4. r # <<>> /\ r \in Seq(S) /\ Len(r) = l.count
  <2>1. r \in Seq(S) /\ Len(r) = l.count
    BY <1>1
  <2> HIDE DEF r
  <2> QED BY <2>1
<1>5. r[1] = Item(l, 0) /\ r[l.count] = Item(l, l.count - 1)
  <2>1. 1 \in 1..l.count /\ l.count \in 1..l.count /\ 1 - 1 = 0
    BY <1>1
  <2> HIDE DEF S
  <2>2. r[1] = Item(l, 1 - 1) /\ r[l.count] = Item(l, l.count - 1)
    BY <1>1, <2>1
  <2> QED BY <2>1, <2>2
<1> HIDE DEF r, S
<1>6. /\ Tail(r) = SubSeq(r, 1 + 1, 1 + (Len(r) - 1)) /\ Head(r) = r[1]
      /\ Abs!Front(r) = SubSeq(r, 0 + 1, 0 + (Len(r) - 1)) /\ Abs!Last(r) = r[Len(r)]
      /\ RemoveAt(r, 1) = Tail(r) /\ RemoveAt(r, Len(r)) = Abs!Front(r)
  BY <1>4, EndsOff
<1> QED BY <1>2, <1>3, <1>4, <1>5, <1>6 DEF r

\* No items, nothing counted.
LEMMA EmptyItems ==
  ASSUME IInv
  PROVE  Contents = <<>> <=> list.count = 0
<1>1. Contents \in Seq(Seq(Byte)) /\ Len(Contents) = list.count
  BY AbstractList
<1> HIDE DEF Contents
<1> QED BY <1>1

LEMMA LPopMap ==
  ASSUME IInv, LPop
  PROVE  Abs!Pop("head")
<1>1. WellFormed(list) /\ Layout(list) /\ Contents = Items(list)
  BY AbstractList
<1>2. CASE list.count = 0
  <2>1. Abs!Reply(Contents, Abs!Failed("LIST_NOT_FOUND"))
    BY <1>2, AbstractResults, StayMap DEF LPop
  <2> QED BY <1>2, <2>1, EmptyItems DEF Abs!Pop
<1>3. CASE list.count # 0
  <2>1. Items(LPopItem(list)) = Tail(Contents) /\ Head(Contents) = Item(list, 0)
    BY <1>1, <1>3, PopItems
  <2>2. LPopItem(list).index_size = list.index_size
        /\ LPopItem(list).data_size = list.data_size
    BY <1>1, <1>3, LPopLayout DEF Shape
  <2>3. Abs!Reply(Tail(Contents), Abs!OkVal(Head(Contents)))
    BY <1>3, <2>1, <2>2, AbstractResults, ReplyMap DEF LPop
  <2> QED BY <1>3, <2>3, EmptyItems DEF Abs!Pop
<1> QED BY <1>2, <1>3

LEMMA RPopMap ==
  ASSUME IInv, RPop
  PROVE  Abs!Pop("tail")
<1>1. WellFormed(list) /\ Layout(list) /\ Contents = Items(list)
  BY AbstractList
<1>2. CASE list.count = 0
  <2>1. Abs!Reply(Contents, Abs!Failed("LIST_NOT_FOUND"))
    BY <1>2, AbstractResults, StayMap DEF RPop
  <2> QED BY <1>2, <2>1, EmptyItems DEF Abs!Pop
<1>3. CASE list.count # 0
  <2>1. /\ Items(RPopItem(list)) = Abs!Front(Contents)
        /\ Abs!Last(Contents) = Item(list, list.count - 1)
    BY <1>1, <1>3, PopItems
  <2>2. RPopItem(list).index_size = list.index_size
        /\ RPopItem(list).data_size = list.data_size
    BY <1>1, <1>3, RPopLayout DEF Shape
  <2>3. Abs!Reply(Abs!Front(Contents), Abs!OkVal(Abs!Last(Contents)))
    BY <1>3, <2>1, <2>2, AbstractResults, ReplyMap DEF RPop
  <2> QED BY <1>3, <2>3, EmptyItems DEF Abs!Pop
<1> QED BY <1>2, <1>3

LEMMA LIndexMap ==
  ASSUME IInv, NEW n \in Nat, LIndex(n)
  PROVE  Abs!Get(n)
<1>1. Len(Contents) = list.count /\ list.count \in Nat
  BY AbstractList
<1>2. CASE n >= list.count
  <2>1. Abs!Reply(Contents, Abs!Failed("LIST_NOT_FOUND"))
    BY <1>2, AbstractResults, StayMap DEF LIndex
  <2>2. ~ (n < Len(Contents))
    BY <1>1, <1>2
  <2> QED BY <2>1, <2>2 DEF Abs!Get
<1>3. CASE ~ (n >= list.count)
  <2>1. n \in 0..(list.count - 1) /\ n < Len(Contents)
    BY <1>1, <1>3
  <2>2. Contents[n + 1] = Item(list, n)
    BY <2>1, AbstractList
  <2>3. Abs!Reply(Contents, Abs!OkVal(Contents[n + 1]))
    BY <1>3, <2>2, AbstractResults, StayMap DEF LIndex
  <2> QED BY <2>1, <2>3 DEF Abs!Get
<1> QED BY <1>2, <1>3

LEMMA LSetMap ==
  ASSUME IInv, NEW n \in Nat, NEW v \in Values, LSet(n, v)
  PROVE  Abs!Set(n, v)
<1> DEFINE amt == Len(v) - GetSize(list, n)
<1>1. /\ Len(Contents) = list.count /\ list.count \in Nat
      /\ WellFormed(list) /\ Layout(list) /\ Contents = Items(list)
  BY AbstractList
<1>2. CASE n >= list.count
  <2>1. Abs!Reply(Contents, Abs!Failed("LIST_NOT_FOUND"))
    BY <1>2, AbstractResults, StayMap DEF LSet
  <2>2. n >= Len(Contents)
    BY <1>1, <1>2
  <2> QED BY <2>1, <2>2 DEF Abs!Set
<1>3. CASE ~ (n >= list.count)
  <2>1. n \in 0..(list.count - 1) /\ ~ (n >= Len(Contents))
    BY <1>1, <1>3
  <2>2. Len(Contents[n + 1]) = GetSize(list, n) /\ GetSize(list, n) \in Nat
        /\ v \in Seq(Byte) /\ Len(v) \in Nat
    BY <1>1, <2>1, AbstractList, ItemBytes, ValueType
  <2>3. /\ amt > 0 <=> Len(v) > Len(Contents[n + 1])
        /\ amt = Len(v) - Len(Contents[n + 1]) /\ amt \in Int
    <3> HIDE DEF Contents
    <3> QED BY <2>2
  <2>4. (amt > 0 /\ DataFull(list, amt))
          <=> (Len(v) > Len(Contents[n + 1])
               /\ ~ Abs!Room(Len(v) - Len(Contents[n + 1])))
    <3> HIDE DEF amt
    <3> QED BY <2>3, AbstractRoom
  <2>5. CASE amt > 0 /\ DataFull(list, amt)
    <3>1. Reply(list, Failed(LIST_FULL))
      BY <1>3, <2>5 DEF LSet
    <3>2. Abs!Reply(Contents, Abs!Failed("LIST_FULL"))
      BY <3>1, AbstractResults, StayMap
    <3> HIDE DEF amt
    <3> QED BY <2>1, <2>4, <2>5, <3>2 DEF Abs!Set
  <2>6. CASE ~ (amt > 0 /\ DataFull(list, amt))
    <3>1. Reply(LSetItem(list, n, v), Ok)
      BY <1>3, <2>6 DEF LSet
    <3>2. Items(LSetItem(list, n, v)) = [Contents EXCEPT ![n + 1] = v]
      BY <1>1, <2>1, <2>2, <2>6, LSetItems
    <3>3. LSetItem(list, n, v).index_size = list.index_size
          /\ LSetItem(list, n, v).data_size = list.data_size
      <4>1. amt = Len(v) - GetSize(list, n)
        OBVIOUS
      <4> HIDE DEF amt
      <4>2. Shape(LSetItem(list, n, v), list, list.count, SetStart(list, n, amt),
                  Stretched(list, n, amt))
        BY <1>1, <2>1, <2>2, <2>6, <4>1, LSetLayout
      <4> QED BY <4>2 DEF Shape
    <3>4. Abs!Reply([Contents EXCEPT ![n + 1] = v], Abs!Ok)
      BY <3>1, <3>2, <3>3, AbstractResults, ReplyMap
    <3> HIDE DEF amt
    <3> QED BY <2>1, <2>4, <2>6, <3>4 DEF Abs!Set
  <2> QED BY <2>5, <2>6
<1> QED BY <1>2, <1>3

LEMMA LRemMap ==
  ASSUME IInv, NEW n \in Nat, LRem(n)
  PROVE  Abs!Drop(n)
<1>1. /\ Len(Contents) = list.count /\ list.count \in Nat
      /\ WellFormed(list) /\ Layout(list) /\ Contents = Items(list)
  BY AbstractList
<1>2. CASE ~ (n < list.count)
  <2>1. Abs!Reply(Contents, Abs!Failed("LIST_NOT_FOUND"))
    BY <1>2, AbstractResults, StayMap DEF LRem
  <2> QED BY <1>1, <1>2, <2>1 DEF Abs!Drop
<1>3. CASE n < list.count
  <2> DEFINE g == LRemItem(list, n)
             q == RemoveAt(Contents, n + 1)
  <2>0. list.count # 0
    BY <1>1, <1>3
  <2>1. ASSUME n + 1 = list.count
        PROVE  Items(g) = q /\ g.index_size = list.index_size /\ g.data_size = list.data_size
    <3>1. g = RPopItem(list)
      <4>1. list.count - 1 = n
        BY <1>1, <2>1
      <4> QED BY <4>1, <2>1 DEF LRemItem, RPopItem
    <3>2. Items(g) = q
      <4>1. Items(RPopItem(list)) = RemoveAt(Items(list), list.count)
        BY <1>1, <2>0, PopItems
      <4> HIDE DEF Contents
      <4> QED BY <1>1, <2>1, <3>1, <4>1
    <3>3. g.index_size = list.index_size /\ g.data_size = list.data_size
      BY <1>1, <2>0, <3>1, RPopLayout DEF Shape
    <3> QED BY <3>2, <3>3
  <2>2. ASSUME n + 1 # list.count /\ n = 0
        PROVE  Items(g) = q /\ g.index_size = list.index_size /\ g.data_size = list.data_size
    <3>1. g = LPopItem(list)
      BY <2>2 DEF LRemItem, LPopItem
    <3>2. Items(g) = q
      <4>1. Items(LPopItem(list)) = RemoveAt(Items(list), 1)
        BY <1>1, <2>0, PopItems
      <4>2. n + 1 = 1
        BY <2>2
      <4> HIDE DEF Contents
      <4> QED BY <1>1, <3>1, <4>1, <4>2
    <3>3. g.index_size = list.index_size /\ g.data_size = list.data_size
      BY <1>1, <2>0, <3>1, LPopLayout DEF Shape
    <3> QED BY <3>2, <3>3
  <2>3. ASSUME n + 1 # list.count /\ n # 0
        PROVE  Items(g) = q /\ g.index_size = list.index_size /\ g.data_size = list.data_size
    <3>1. n \in 1..(list.count - 2)
      BY <1>1, <1>3, <2>3
    <3>2. Items(g) = q
      BY <1>1, <3>1, LRemInnerItems
    <3>3. g.index_size = list.index_size /\ g.data_size = list.data_size
      BY <1>1, <3>1, LRemInner DEF Shape
    <3> QED BY <3>2, <3>3
  <2>4. Items(g) = q /\ g.index_size = list.index_size /\ g.data_size = list.data_size
    BY <2>1, <2>2, <2>3
  <2>5. Reply(g, Ok)
    BY <1>3 DEF LRem
  <2> HIDE DEF g
  <2>6. Abs!Reply(q, Abs!Ok)
    BY <2>4, <2>5, AbstractResults, ReplyMap
  <2>7. q = Abs!RemoveAt(Contents, n + 1)
    BY DEF RemoveAt, Abs!RemoveAt
  <2> QED BY <1>1, <1>3, <2>6, <2>7 DEF Abs!Drop
<1> QED BY <1>2, <1>3

LEMMA LTrimMap ==
  ASSUME IInv, NEW n \in Nat, LTrim(n)
  PROVE  Abs!Trim(n, "head")
<1> DEFINE k == IF n > list.count THEN list.count ELSE n
           c == list.count - k
           g == LTrimItems(list, k)
<1>1. /\ Len(Contents) = list.count /\ list.count \in Nat
      /\ WellFormed(list) /\ Layout(list) /\ Contents = Items(list)
  BY AbstractList
<1>2. k \in 0..list.count /\ c \in 0..(list.count - k) /\ k + c = list.count
      /\ k = IF n > Len(Contents) THEN Len(Contents) ELSE n
  BY <1>1
<1>3. Reply(g, Ok)
  BY DEF LTrim
<1>4. /\ WellFormed(g) /\ Layout(g) /\ Shape(g, list, c, StartOf(list, k), Sliced(list, k, c))
      /\ g.blob = list.blob
  <2> HIDE DEF k
  <2> QED BY <1>1, <1>2, LTrimLayout, CutsKeepBytes
<1> HIDE DEF k, c, g
<1>5. Items(g) = SubSeq(Contents, k + 1, k + c)
  BY <1>1, <1>2, <1>4, SliceItems
<1>6. Abs!Reply(SubSeq(Contents, k + 1, k + c), Abs!Ok)
  BY <1>3, <1>4, <1>5, AbstractResults, ReplyMap DEF Shape
<1> QED BY <1>1, <1>2, <1>6 DEF Abs!Trim

LEMMA RTrimMap ==
  ASSUME IInv, NEW n \in Nat, RTrim(n)
  PROVE  Abs!Trim(n, "tail")
<1> DEFINE k == IF n > list.count THEN list.count ELSE n
           c == list.count - k
           g == RTrimItems(list, k)
           h == 0
<1>1. /\ Len(Contents) = list.count /\ list.count \in Nat
      /\ WellFormed(list) /\ Layout(list) /\ Contents = Items(list)
  BY AbstractList
<1>2. k \in 0..list.count /\ h \in 0..list.count /\ c \in 0..(list.count - h)
      /\ h + 1 = 1 /\ h + c = c /\ c = Len(Contents) - k
      /\ k = IF n > Len(Contents) THEN Len(Contents) ELSE n
  BY <1>1
<1>3. Reply(g, Ok)
  BY DEF RTrim
<1>4. /\ WellFormed(g) /\ Layout(g) /\ Shape(g, list, c, StartOf(list, h), Sliced(list, h, c))
      /\ g.blob = list.blob
  <2> HIDE DEF k
  <2> QED BY <1>1, <1>2, RTrimLayout, CutsKeepBytes
<1> HIDE DEF k, c, g, h
<1>5. Items(g) = SubSeq(Contents, h + 1, h + c)
  BY ZenonT(30), <1>1, <1>2, <1>4, SliceItems
<1>6. Abs!Reply(SubSeq(Contents, 1, c), Abs!Ok)
  BY <1>2, <1>3, <1>4, <1>5, AbstractResults, ReplyMap DEF Shape
<1> QED BY <1>1, <1>2, <1>6 DEF Abs!Trim

\* Min() and Max() mean the same in ListSpec.
LEMMA AbstractMinMax ==
  ASSUME NEW S
  PROVE  Abs!Min(S) = Min(S) /\ Abs!Max(S) = Max(S)
  BY DEF Abs!Min, Abs!Max, Min, Max

LEMMA MatchesType ==
  ASSUME IInv, NEW v
  PROVE  /\ Matches(v) \in SUBSET Nat
         /\ \A n \in Matches(v) : n \in 0..(list.count - 1) /\ n + 1 \in 1..list.count
                                  /\ (n + 1) - 1 = n /\ n <= list.count
         /\ \A n \in 1..list.count : n \in Nat
<1>1. list.count \in Nat
  BY AbstractList
<1>2. \A n \in Matches(v) : n \in 0..(list.count - 1)
  BY DEF Matches
<1> QED BY <1>1, <1>2

LEMMA ScanFwdMap ==
  ASSUME IInv, NEW v \in Values, NEW pos \in Nat, ScanFwd(v, pos)
  PROVE  Abs!Scan(v, pos, TRUE)
<1> DEFINE at == {n \in Matches(v) : n >= pos}
           found == Abs!Found(v, Odds(v))
           after == {n \in found : n > pos}
<1>1. /\ WellFormed(list) /\ Layout(list) /\ list.count \in Nat /\ v \in Seq(Byte)
  BY AbstractList, ValueType
<1>2. Odds(v) \in Abs!Odd(v) /\ found = {n \in 1..list.count : n - 1 \in Matches(v)}
  BY <1>1, SearchFound
<1> HIDE DEF found
<1>3. /\ at \in SUBSET Nat /\ after \in SUBSET Nat
      /\ \A n \in at : n + 1 \in after
      /\ \A n \in after : n - 1 \in at
  <2>1. at \in SUBSET Nat /\ after \in SUBSET Nat
    BY <1>2, MatchesType
  <2>2. ASSUME NEW n \in at PROVE n + 1 \in after
    <3>1. n \in Matches(v) /\ n \in Nat /\ n + 1 \in 1..list.count /\ (n + 1) - 1 = n
      BY MatchesType
    <3>2. n + 1 > pos
      BY <3>1
    <3> QED BY <1>2, <3>1, <3>2
  <2>3. ASSUME NEW n \in after PROVE n - 1 \in at
    <3>1. n \in 1..list.count /\ n - 1 \in Matches(v) /\ n > pos
      BY <1>2
    <3>2. n - 1 >= pos
      BY <1>1, <3>1
    <3> QED BY <3>1, <3>2
  <2> QED BY <2>1, <2>2, <2>3
<1>4. Reply(list, IF at = {} THEN Failed(LIST_NOT_FOUND) ELSE OkPos(Min(at)))
  BY DEF ScanFwd
<1>5. after = {n \in found : IF TRUE THEN n > pos ELSE n <= pos}
  OBVIOUS
<1> HIDE DEF at, after
<1>6. (IF at = {} THEN Failed(LIST_NOT_FOUND) ELSE OkPos(Min(at)))
        = IF after = {} THEN Abs!Failed("LIST_NOT_FOUND")
          ELSE Abs!OkPos((IF TRUE THEN Abs!Min(after) ELSE Abs!Max(after)) - 1)
  <2>1. CASE at = {}
    <3>1. after = {}
      BY <1>3, <2>1
    <3> QED BY <2>1, <3>1, AbstractResults
  <2>2. CASE at # {}
    <3>1. Min(after) = Min(at) + 1 /\ after # {}
      BY <1>3, <2>2, ShiftedMin
    <3>2. Min(at) \in Nat
      BY <1>3, <2>2, LeastElement
    <3>3. Abs!Min(after) - 1 = Min(at)
      BY <3>1, <3>2, AbstractMinMax
    <3> QED BY <2>2, <3>1, <3>3, AbstractResults
  <2> QED BY <2>1, <2>2
<1>7. Abs!Reply(Contents, IF after = {} THEN Abs!Failed("LIST_NOT_FOUND")
          ELSE Abs!OkPos((IF TRUE THEN Abs!Min(after) ELSE Abs!Max(after)) - 1))
  BY <1>4, <1>6, StayMap
<1> QED BY <1>2, <1>5, <1>7 DEF Abs!Scan, found

LEMMA ScanRevMap ==
  ASSUME IInv, NEW v \in Values, NEW pos \in Nat, ScanRev(v, pos)
  PROVE  Abs!Scan(v, pos, FALSE)
<1> DEFINE at == {n \in Matches(v) : n < pos}
           found == Abs!Found(v, Odds(v))
           before == {n \in found : n <= pos}
<1>1. /\ WellFormed(list) /\ Layout(list) /\ list.count \in Nat /\ v \in Seq(Byte)
  BY AbstractList, ValueType
<1>2. Odds(v) \in Abs!Odd(v) /\ found = {n \in 1..list.count : n - 1 \in Matches(v)}
  BY <1>1, SearchFound
<1> HIDE DEF found
<1>3. /\ at \in SUBSET Nat /\ before \in SUBSET Nat
      /\ \A n \in at : n + 1 \in before
      /\ \A n \in before : n - 1 \in at
      /\ \A n \in at : n <= list.count
  <2>1. at \in SUBSET Nat /\ before \in SUBSET Nat /\ \A n \in at : n <= list.count
    BY <1>2, MatchesType
  <2>2. ASSUME NEW n \in at PROVE n + 1 \in before
    <3>1. n \in Matches(v) /\ n \in Nat /\ n + 1 \in 1..list.count /\ (n + 1) - 1 = n
      BY MatchesType
    <3>2. n + 1 <= pos
      BY <3>1
    <3> QED BY <1>2, <3>1, <3>2
  <2>3. ASSUME NEW n \in before PROVE n - 1 \in at
    <3>1. n \in 1..list.count /\ n - 1 \in Matches(v) /\ n <= pos
      BY <1>2
    <3>2. n - 1 < pos
      BY <1>1, <3>1
    <3> QED BY <3>1, <3>2
  <2> QED BY <2>1, <2>2, <2>3
<1>4. Reply(list, IF at = {} THEN Failed(LIST_NOT_FOUND) ELSE OkPos(Max(at)))
  BY DEF ScanRev
<1>5. before = {n \in found : IF FALSE THEN n > pos ELSE n <= pos}
  OBVIOUS
<1> HIDE DEF at, before
<1>6. (IF at = {} THEN Failed(LIST_NOT_FOUND) ELSE OkPos(Max(at)))
        = IF before = {} THEN Abs!Failed("LIST_NOT_FOUND")
          ELSE Abs!OkPos((IF FALSE THEN Abs!Min(before) ELSE Abs!Max(before)) - 1)
  <2>1. CASE at = {}
    <3>1. before = {}
      BY <1>3, <2>1
    <3> QED BY <2>1, <3>1, AbstractResults
  <2>2. CASE at # {}
    <3>1. Max(before) = Max(at) + 1 /\ before # {}
      BY <1>1, <1>3, <2>2, ShiftedMax
    <3>2. Max(at) \in Nat
      BY <1>1, <1>3, <2>2, GreatestElement
    <3>3. Abs!Max(before) - 1 = Max(at)
      BY <3>1, <3>2, AbstractMinMax
    <3> QED BY <2>2, <3>1, <3>3, AbstractResults
  <2> QED BY <2>1, <2>2
<1>7. Abs!Reply(Contents, IF before = {} THEN Abs!Failed("LIST_NOT_FOUND")
          ELSE Abs!OkPos((IF FALSE THEN Abs!Min(before) ELSE Abs!Max(before)) - 1))
  BY <1>4, <1>6, StayMap
<1> QED BY <1>2, <1>5, <1>7 DEF Abs!Scan, found

\* Before the head is lpush(): that is where InsertAt() puts it as well.
LEMMA InsertFirst ==
  ASSUME NEW S, NEW r \in Seq(S), NEW v \in S
  PROVE  InsertAt(r, 1, v) = << v >> \o r
<1> DEFINE a == InsertAt(r, 1, v)
           b == << v >> \o r
<1>1. 1 \in 1..(Len(r) + 1) /\ Len(r) \in Nat
  OBVIOUS
<1>2. a \in Seq(S) /\ Len(a) = Len(r) + 1 /\ a[1] = v
  BY <1>1, InsertAtElements
<1>3. \A n \in 1..Len(r) : 1 <= n => a[n + 1] = r[n]
  BY <1>1, InsertAtElements
<1>4. b \in Seq(S) /\ Len(b) = Len(r) + 1 /\ b[1] = v
  OBVIOUS
<1>5. \A n \in 1..Len(r) : b[n + 1] = r[n]
  OBVIOUS
<1> HIDE DEF a, b
<1>6. ASSUME NEW n \in 1..Len(a) PROVE a[n] = b[n]
  <2>1. CASE n = 1
    BY <1>2, <1>4, <2>1
  <2>2. CASE n # 1
    <3>1. n - 1 \in 1..Len(r) /\ 1 <= n - 1 /\ (n - 1) + 1 = n
      BY <1>1, <1>2, <2>2
    <3>2. a[(n - 1) + 1] = r[n - 1] /\ b[(n - 1) + 1] = r[n - 1]
      BY <1>3, <1>5, <3>1
    <3> QED BY <3>1, <3>2
  <2> QED BY <2>1, <2>2
<1>7. a = b
  BY <1>2, <1>4, <1>6, SameSequence
<1> QED BY <1>7 DEF a, b

LEMMA LInsertMap ==
  ASSUME IInv, NEW piv \in Values, NEW v \in Values, NEW after \in BOOLEAN,
         LInsert(piv, v, after)
  PROVE  Abs!Insert(piv, v, after)
<1> DEFINE at == Abs!Found(piv, Odds(piv))
           S  == Matches(piv)
           n  == Min(S)
           i  == Abs!Min(at) + (IF after THEN 1 ELSE 0)
<1>1. /\ WellFormed(list) /\ Layout(list) /\ list.count \in Nat /\ v \in Seq(Byte)
      /\ piv \in Seq(Byte) /\ Len(v) \in Nat /\ Contents = Items(list)
      /\ Contents \in Seq(Seq(Byte))
  BY AbstractList, ValueType
<1>2. Odds(piv) \in Abs!Odd(piv) /\ at = {m \in 1..list.count : m - 1 \in S}
  BY <1>1, SearchFound
<1> HIDE DEF at
<1>3. /\ S \in SUBSET Nat /\ at \in SUBSET Nat /\ \A m \in at : m - 1 \in S
      /\ \A m \in S : m + 1 \in at /\ m \in 0..(list.count - 1)
  <2>1. /\ S \in SUBSET Nat
        /\ \A m \in S : m \in 0..(list.count - 1) /\ m + 1 \in 1..list.count
                        /\ (m + 1) - 1 = m
        /\ \A m \in 1..list.count : m \in Nat
    BY MatchesType
  <2> HIDE DEF S
  <2> QED BY <1>2, <2>1
<1>4. Abs!Insert(piv, v, after)
        <=> \E odd \in Abs!Odd(piv) :
              LET a == Abs!Found(piv, odd)
              IN  IF a = {} THEN Abs!Reply(Contents, Abs!Failed("LIST_NOT_FOUND"))
                  ELSE IF ~ Abs!HasRoom(Len(v))
                  THEN Abs!Reply(Contents, Abs!Failed("LIST_FULL"))
                  ELSE Abs!Reply(Abs!InsertAt(Contents,
                                   Abs!Min(a) + (IF after THEN 1 ELSE 0), v), Abs!Ok)
  BY DEF Abs!Insert
<1>5. SUFFICES IF at = {} THEN Abs!Reply(Contents, Abs!Failed("LIST_NOT_FOUND"))
               ELSE IF ~ Abs!HasRoom(Len(v))
               THEN Abs!Reply(Contents, Abs!Failed("LIST_FULL"))
               ELSE Abs!Reply(InsertAt(Contents, i, v), Abs!Ok)
  <2>1. Abs!InsertAt(Contents, i, v) = InsertAt(Contents, i, v)
    BY DEF Abs!InsertAt, InsertAt
  <2> QED BY <1>2, <1>4, <2>1 DEF at
<1>6. CASE S = {}
  <2>1. at = {}
    BY <1>3, <1>6
  <2>2. Reply(list, Failed(LIST_NOT_FOUND))
    BY <1>6 DEF LInsert
  <2> QED BY <2>1, <2>2, AbstractResults, StayMap
<1>7. CASE S # {} /\ Full(list, Len(v))
  <2>1. at # {}
    BY <1>3, <1>7
  <2>2. Reply(list, Failed(LIST_FULL))
    BY <1>7 DEF LInsert
  <2>3. ~ Abs!HasRoom(Len(v))
    BY <1>1, <1>7, AbstractRoom
  <2> QED BY <2>1, <2>2, <2>3, AbstractResults, StayMap
<1>8. CASE S # {} /\ ~ Full(list, Len(v))
  <2>1. Abs!HasRoom(Len(v))
    BY <1>1, <1>8, AbstractRoom
  <2>2. /\ at # {} /\ n \in S /\ n \in 0..(list.count - 1)
        /\ i = (n + 1) + (IF after THEN 1 ELSE 0)
    <3> HIDE DEF S
    <3>1. Min(at) = Min(S) + 1 /\ at # {}
      BY <1>3, <1>8, ShiftedMin
    <3>2. Min(S) \in S
      BY <1>3, <1>8, LeastElement
    <3>3. Abs!Min(at) = n + 1
      BY <3>1, AbstractMinMax
    <3> QED BY <1>3, <3>1, <3>2, <3>3
  <2> DEFINE g == IF after THEN InsertItem(list, n, v)
                  ELSE IF n = 0 THEN LPushItem(list, v)
                  ELSE InsertItem(list, n - 1, v)
  <2>3. Reply(g, Ok)
    BY <1>8 DEF LInsert
  <2> HIDE DEF S, n, i
  <2>4. /\ Items(g) = InsertAt(Contents, i, v)
        /\ g.index_size = list.index_size /\ g.data_size = list.data_size
    <3>1. CASE after
      <4>1. i = n + 2
        BY <1>1, <2>2, <3>1
      <4>2. Items(InsertItem(list, n, v)) = InsertAt(Items(list), n + 2, v)
        BY <1>1, <1>8, <2>2, InsertItems
      <4>3. Shape(InsertItem(list, n, v), list, list.count + 1, StartOf(list, 0),
                  Spread(list, n, Len(v)))
        BY <1>1, <1>8, <2>2, InsertLayout
      <4> QED BY <1>1, <3>1, <4>1, <4>2, <4>3 DEF Shape
    <3>2. CASE ~ after /\ n = 0
      <4>1. i = 1
        BY <2>2, <3>2
      <4>2. Items(LPushItem(list, v)) = << v >> \o Items(list)
        BY <1>1, <1>8, LPushItems
      <4>3. Shape(LPushItem(list, v), list, list.count + 1,
                  DataOffset(list, StartOf(list, 0), -Len(v)), Prepended(list, Len(v)))
        BY <1>1, <1>8, LPushLayout
      <4>4. InsertAt(Contents, 1, v) = << v >> \o Contents
        BY <1>1, InsertFirst
      <4> QED BY <1>1, <3>2, <4>1, <4>2, <4>3, <4>4 DEF Shape
    <3>3. CASE ~ after /\ n # 0
      <4> DEFINE m == n - 1
      <4>1. i = m + 2 /\ m \in 0..(list.count - 1)
        BY <1>1, <2>2, <3>3
      <4> HIDE DEF m
      <4>2. Items(InsertItem(list, m, v)) = InsertAt(Items(list), m + 2, v)
        BY <1>1, <1>8, <4>1, InsertItems
      <4>3. Shape(InsertItem(list, m, v), list, list.count + 1, StartOf(list, 0),
                  Spread(list, m, Len(v)))
        BY <1>1, <1>8, <4>1, InsertLayout
      <4>4. g = InsertItem(list, m, v)
        BY <3>3 DEF m
      <4> HIDE DEF g
      <4> QED BY <1>1, <4>1, <4>2, <4>3, <4>4 DEF Shape
    <3> QED BY <3>1, <3>2, <3>3
  <2> HIDE DEF g
  <2>5. Abs!Reply(InsertAt(Contents, i, v), Abs!Ok)
    BY <2>3, <2>4, AbstractResults, ReplyMap
  <2> QED BY <2>1, <2>2, <2>5
<1> HIDE DEF S, n, i
<1> QED BY <1>6, <1>7, <1>8

LEMMA CopyMap ==
  ASSUME IInv, NEW size \in Sizes, Copy(size)
  PROVE  Abs!Move(size)
<1> DEFINE g == CopyList(list, size[1], size[2], Fill)
<1>1. /\ WellFormed(list) /\ Layout(list) /\ list.count \in Nat
      /\ Len(Contents) = list.count /\ Abs!Total(Contents) = list.data_len
      /\ Contents = Items(list)
  BY AbstractList
<1>2. /\ size[1] \in Nat \ {0, 1} /\ size[2] \in Nat \ {0, 1} /\ Fill \in Byte
      /\ size = <<size[1], size[2]>>
  BY ListAssumption
<1>3. list.count < size[1] /\ list.data_len < size[2] /\ list' = g /\ ret' = Ok
  BY DEF Copy, Reply
<1>4. Items(g) = Contents
  BY <1>1, <1>2, <1>3, CopyItems
<1>5. g.index_size = size[1] /\ g.data_size = size[2] /\ g.count = list.count
  BY DEF CopyList, EmptyList
<1> HIDE DEF g
<1>6. Contents' = Contents
  <2>1. Contents' = Items(g)
    BY <1>3 DEF Contents, Items
  <2> QED BY <1>4, <2>1
<1>7. Torn' \in SUBSET DOMAIN Contents
  <2>1. DOMAIN Contents = 1..list.count
    BY DEF Contents
  <2>2. Torn' \subseteq 1..g.count
    BY <1>3 DEF Torn
  <2> QED BY <1>5, <2>1, <2>2
<1>8. <<list.index_size, list.data_size>>' = size
  BY <1>2, <1>3, <1>5
<1> QED BY <1>1, <1>3, <1>6, <1>7, <1>8, AbstractResults DEF Abs!Move, Abs!Stored

\* Every step of the list is one of ListSpec.
LEMMA NextMap == IInv /\ [Next]_vars => [Abs!Next]_(Abs!vars)
<1> SUFFICES ASSUME IInv, [Next]_vars PROVE Abs!Next \/ UNCHANGED Abs!vars
  OBVIOUS
<1>1. Abs!Positions = Positions /\ \A n \in Positions : n \in Nat
  <2>1. Len(Contents) = list.count /\ list.count \in Nat
    BY AbstractList
  <2> QED BY <2>1 DEF Abs!Positions, Positions
<1>2. ASSUME NEW v \in Values, RPush(v) PROVE Abs!Next
  BY <1>2, RPushMap DEF Abs!Next
<1>3. ASSUME NEW v \in Values, LPush(v) PROVE Abs!Next
  BY <1>3, LPushMap DEF Abs!Next
<1>4. CASE LPop
  BY <1>4, LPopMap DEF Abs!Next
<1>5. CASE RPop
  BY <1>5, RPopMap DEF Abs!Next
<1>6. ASSUME NEW n \in Positions, LIndex(n) PROVE Abs!Next
  BY <1>1, <1>6, LIndexMap DEF Abs!Next
<1>7. ASSUME NEW n \in Positions, NEW v \in Values, LSet(n, v) PROVE Abs!Next
  BY <1>1, <1>7, LSetMap DEF Abs!Next
<1>8. ASSUME NEW n \in Positions, LRem(n) PROVE Abs!Next
  BY <1>1, <1>8, LRemMap DEF Abs!Next
<1>9. ASSUME NEW n \in Positions, LTrim(n) PROVE Abs!Next
  BY <1>1, <1>9, LTrimMap DEF Abs!Next
<1>10. ASSUME NEW n \in Positions, RTrim(n) PROVE Abs!Next
  BY <1>1, <1>10, RTrimMap DEF Abs!Next
<1>11. ASSUME NEW v \in Values, NEW pos \in Positions, ScanFwd(v, pos) PROVE Abs!Next
  BY <1>1, <1>11, ScanFwdMap DEF Abs!Next
<1>12. ASSUME NEW v \in Values, NEW pos \in Positions, ScanRev(v, pos) PROVE Abs!Next
  BY <1>1, <1>12, ScanRevMap DEF Abs!Next
<1>13. ASSUME NEW piv \in Values, NEW v \in Values, NEW after \in BOOLEAN,
              LInsert(piv, v, after)
       PROVE  Abs!Next
  BY <1>13, LInsertMap DEF Abs!Next
<1>14. ASSUME NEW size \in Sizes, Copy(size) PROVE Abs!Next
  BY <1>14, CopyMap DEF Abs!Next
<1>15. CASE UNCHANGED vars
  BY <1>15 DEF vars, Abs!vars, Contents, Torn
<1> QED
  BY <1>2, <1>3, <1>4, <1>5, <1>6, <1>7, <1>8, <1>9, <1>10, <1>11, <1>12, <1>13, <1>14,
     <1>15 DEF Next

\* Callers see a list of byte strings: what the handlers do to the rings, all
\* the memmoves and index loops, is what ListSpec says of the items.
THEOREM ListImplemented == Spec => ImplementsList
<1>1. Spec => Abs!Init /\ [][Abs!Next]_(Abs!vars)
  BY InitMap, NextMap, InitInv, NextInv, PTL DEF Spec
<1> QED BY <1>1 DEF ImplementsList, Abs!Spec

-----------------------------------------------------------------------------
(* Induction, and functions defined by it. *)

\* f has the value a[n] at n in B, elsewhere one that comes by h from its value
\* at d[n].
Recurs(f, B, a, d, h) ==
  \A n \in Nat : f[n] = IF n \in B THEN a[n] ELSE h[<<n, f[d[n]]>>]

\* There is such a function if d[n] is smaller.
LEMMA Recursion ==
  ASSUME NEW T, NEW B \in SUBSET Nat, NEW a \in [Nat -> T], NEW d \in [Nat -> Nat],
         NEW h \in [Nat \X T -> T], \A n \in Nat \ B : d[n] < n
  PROVE  \E f \in [Nat -> T] : Recurs(f, B, a, d, h)
<1> DEFINE Val(g, n) == IF n \in B THEN a[n] ELSE h[<<n, g[d[n]]>>]
           Good(g, n) == g \in [0..n -> T] /\ \A i \in 0..n : g[i] = Val(g, i)
<1>1. ASSUME NEW n \in Nat, NEW m \in Nat, NEW g, NEW k, Good(g, n), Good(k, m)
      PROVE  \A i \in Nat : i <= n /\ i <= m => g[i] = k[i]
  <2> DEFINE S == {i \in Nat : i <= n /\ i <= m => g[i] = k[i]}
  <2>1. ASSUME NEW i \in Nat, \A j \in 0..(i - 1) : j \in S
        PROVE  i \in S
    <3> SUFFICES ASSUME i <= n, i <= m PROVE g[i] = k[i]
      OBVIOUS
    <3>1. i \in 0..n /\ i \in 0..m
      OBVIOUS
    <3>2. g[i] = Val(g, i) /\ k[i] = Val(k, i)
      BY <1>1, <3>1
    <3>3. CASE i \in B
      BY <3>2, <3>3
    <3>4. CASE i \notin B
      <4>1. d[i] \in Nat /\ d[i] < i
        BY <3>4
      <4>2. d[i] \in 0..(i - 1) /\ d[i] <= n /\ d[i] <= m
        BY <4>1
      <4>3. d[i] \in S
        BY <2>1, <4>2
      <4>4. g[d[i]] = k[d[i]]
        BY <4>2, <4>3
      <4> QED BY <3>2, <3>4, <4>4
    <3> QED BY <3>3, <3>4
  <2>2. S \in SUBSET Nat
    OBVIOUS
  <2> HIDE DEF S
  <2>3. S = Nat
    BY <2>1, <2>2, Induction
  <2> QED BY <2>3 DEF S
<1>2. \A n \in Nat : \E g : Good(g, n)
  <2> DEFINE S == {n \in Nat : \E g : Good(g, n)}
  <2>1. ASSUME NEW n \in Nat, \A m \in 0..(n - 1) : m \in S
        PROVE  n \in S
    <3>1. CASE n = 0
      <4>1. 0 \in B
        <5>1. ASSUME 0 \notin B PROVE FALSE
          <6>1. d[0] \in Nat /\ d[0] < 0
            BY <5>1
          <6> QED BY <6>1
        <5> QED BY <5>1
      <4> DEFINE g == [i \in 0..0 |-> a[0]]
      <4>2. \A i \in 0..0 : i = 0
        OBVIOUS
      <4>3. a[0] \in T
        OBVIOUS
      <4>4. Good(g, 0)
        BY <4>1, <4>2, <4>3
      <4> HIDE DEF g, Good
      <4> QED BY <3>1, <4>4
    <3>2. CASE n # 0
      <4>1. n - 1 \in 0..(n - 1) /\ n - 1 \in Nat
        BY <3>2
      <4>2. PICK g : Good(g, n - 1)
        BY <2>1, <4>1
      <4> DEFINE k == [i \in 0..n |-> IF i = n THEN Val(g, n) ELSE g[i]]
      <4>3. \A i \in 0..n : i # n => i \in 0..(n - 1)
        OBVIOUS
      <4>4. \A i \in 0..n : i \notin B => d[i] \in 0..(n - 1) /\ d[i] \in 0..n /\ d[i] # n
        <5> TAKE i \in 0..n
        <5> HAVE i \notin B
        <5>1. i \in Nat /\ i <= n
          OBVIOUS
        <5>2. d[i] \in Nat /\ d[i] < i
          BY <5>1
        <5> QED BY <5>1, <5>2
      <4>5. n \in 0..n
        OBVIOUS
      <4>6. \A i \in 0..(n - 1) : g[i] \in T
        BY <4>2
      <4>7. Val(g, n) \in T
        <5>1. CASE n \in B
          BY <5>1
        <5>2. CASE n \notin B
          <6>1. g[d[n]] \in T
            BY <4>4, <4>5, <4>6, <5>2
          <6>2. <<n, g[d[n]]>> \in Nat \X T
            BY <6>1
          <6> QED BY <5>2, <6>2
        <5> QED BY <5>1, <5>2
      <4>8. k \in [0..n -> T]
        <5>1. ASSUME NEW i \in 0..n
              PROVE  (IF i = n THEN Val(g, n) ELSE g[i]) \in T
          BY <4>3, <4>6, <4>7
        <5> QED BY <5>1
      <4>9. \A i \in 0..n : k[i] = Val(k, i)
        <5> TAKE i \in 0..n
        <5>1. Val(k, i) = Val(g, i)
          <6>1. CASE i \in B
            BY <6>1
          <6>2. CASE i \notin B
            <7>1. k[d[i]] = g[d[i]]
              BY <4>4, <6>2
            <7> HIDE DEF k
            <7> QED BY <6>2, <7>1
          <6> QED BY <6>1, <6>2
        <5>2. CASE i = n
          BY <5>1, <5>2
        <5>3. CASE i # n
          <6>1. i \in 0..(n - 1)
            BY <4>3, <5>3
          <6>2. g[i] = Val(g, i)
            BY <4>2, <6>1
          <6>3. k[i] = g[i]
            BY <5>3
          <6> QED BY <5>1, <6>2, <6>3
        <5> QED BY <5>2, <5>3
      <4>10. Good(k, n)
        <5> HIDE DEF k, Val
        <5> QED BY <4>8, <4>9
      <4> HIDE DEF k, Good
      <4> QED BY <4>10
    <3> QED BY <3>1, <3>2
  <2>2. S \in SUBSET Nat
    OBVIOUS
  <2> HIDE DEF S
  <2>3. S = Nat
    BY <2>1, <2>2, Induction
  <2> QED BY <2>3 DEF S
<1> DEFINE G(n) == CHOOSE g : Good(g, n)
           f == [n \in Nat |-> G(n)[n]]
<1>3. \A n \in Nat : Good(G(n), n)
  <2> TAKE n \in Nat
  <2>1. \E g : Good(g, n)
    BY <1>2
  <2> HIDE DEF Good
  <2> QED BY <2>1
<1>4. \A n \in Nat : f[n] = Val(f, n)
  <2> TAKE n \in Nat
  <2> HIDE DEF G
  <2>1. n \in 0..n
    OBVIOUS
  <2>2. G(n)[n] = Val(G(n), n)
    BY <1>3, <2>1
  <2>3. CASE n \in B
    BY <2>2, <2>3
  <2>4. CASE n \notin B
    <3>1. d[n] \in Nat /\ d[n] <= n /\ d[n] <= d[n]
      BY <2>4
    <3>2. Good(G(n), n) /\ Good(G(d[n]), d[n])
      BY <1>3, <3>1
    <3>3. G(n)[d[n]] = G(d[n])[d[n]]
      <4> HIDE DEF Good
      <4> QED BY <1>1, <3>1, <3>2
    <3> QED BY <2>2, <2>4, <3>1, <3>3
  <2> QED BY <2>3, <2>4
<1>5. f \in [Nat -> T]
  <2> HIDE DEF G
  <2>1. ASSUME NEW n \in Nat PROVE G(n)[n] \in T
    <3>1. Good(G(n), n) /\ n \in 0..n
      BY <1>3
    <3> QED BY <3>1
  <2> QED BY <2>1
<1>6. Recurs(f, B, a, d, h)
  BY <1>4 DEF Recurs
<1> HIDE DEF f
<1> QED BY <1>5, <1>6

-----------------------------------------------------------------------------
(* alloc_size(). *)

\* What is a power of two, as far as widths tell.
Power(p) ==
  \/ p \in {0, 1, 2, 4, 8, 16, 32, 64, 128, 256, 512, 1024, 2048, 4096, 8192,
            16384, 32768, 65536}
  \/ p >= 131072

\* pow2size() rounds up, to a power of two.
LEMMA RoundedUp ==
  ASSUME NEW sz \in Nat
  PROVE  Pow2Size(sz) \in Nat /\ Pow2Size(sz) >= sz /\ Power(Pow2Size(sz))
<1> DEFINE Round(f) == [n \in Nat |-> IF n <= 1 THEN n ELSE 2 * f[(n + 1) \div 2]]
           above == CHOOSE f : f = Round(f)
<1>1. ASSUME NEW n \in Nat, n > 1
      PROVE  /\ (n + 1) \div 2 \in Nat /\ (n + 1) \div 2 < n
             /\ 2 * ((n + 1) \div 2) >= n
  <2> DEFINE x == n + 1
             q == x \div 2
  <2>1. x \in Nat
    OBVIOUS
  <2>2. q \in Int /\ 2 * q <= x /\ x < 2 * q + 2
    <3> HIDE DEF x
    <3>1. x \div 2 \in Int
      BY <2>1
    <3>2. 2 * (x \div 2) <= x
      BY <2>1, SMT
    <3>3. x < 2 * (x \div 2) + 2
      BY <2>1, SMT
    <3> QED BY <3>1, <3>2, <3>3
  <2>3. x = n + 1
    OBVIOUS
  <2> HIDE DEF x, q
  <2>4. q \in Nat /\ q < n /\ 2 * q >= n
    BY <1>1, <2>1, <2>2, <2>3
  <2> QED BY <2>4 DEF q, x
<1>2. \E f : f = Round(f)
  <2> DEFINE B == {0, 1}
             a == [n \in Nat |-> n]
             d == [n \in Nat |-> (n + 1) \div 2]
             h == [s \in Nat \X Nat |-> 2 * s[2]]
  <2>1. B \in SUBSET Nat /\ a \in [Nat -> Nat]
    OBVIOUS
  <2>2. d \in [Nat -> Nat]
    <3>1. ASSUME NEW n \in Nat PROVE (n + 1) \div 2 \in Nat
      BY SMT
    <3> QED BY <3>1
  <2>3. h \in [Nat \X Nat -> Nat]
    OBVIOUS
  <2>4. \A n \in Nat \ B : d[n] < n
    BY <1>1
  <2>5. PICK f \in [Nat -> Nat] : Recurs(f, B, a, d, h)
    <3> HIDE DEF B, a, d, h
    <3> QED BY <2>1, <2>2, <2>3, <2>4, Recursion
  <2>6. ASSUME NEW n \in Nat
        PROVE  f[n] = IF n <= 1 THEN n ELSE 2 * f[(n + 1) \div 2]
    <3>1. CASE n <= 1
      <4>1. n \in B
        BY <3>1
      <4>2. f[n] = a[n]
        <5> HIDE DEF B, a, d, h
        <5> QED BY <2>5, <4>1 DEF Recurs
      <4> QED BY <3>1, <4>2
    <3>2. CASE ~ (n <= 1)
      <4>1. n \notin B
        BY <3>2
      <4>2. f[n] = h[<<n, f[d[n]]>>]
        <5> HIDE DEF B, a, d, h
        <5> QED BY <2>5, <4>1 DEF Recurs
      <4>3. d[n] = (n + 1) \div 2
        OBVIOUS
      <4>4. f[d[n]] \in Nat
        <5> HIDE DEF d
        <5> QED BY <2>2
      <4>5. h[<<n, f[d[n]]>>] = 2 * f[d[n]]
        <5> HIDE DEF d
        <5> QED BY <4>4
      <4> QED BY <3>2, <4>2, <4>3, <4>5
    <3> QED BY <3>1, <3>2
  <2>7. f = Round(f)
    BY <2>6
  <2> HIDE DEF Round
  <2> QED BY <2>7
<1>3. above = Round(above)
  <2> HIDE DEF Round
  <2> QED BY <1>2
<1>4. Pow2Size(sz) = above[sz]
  BY DEF Pow2Size
<1> HIDE DEF above
<1>5. \A n \in Nat : above[n] = IF n <= 1 THEN n ELSE 2 * above[(n + 1) \div 2]
  <2> DEFINE R == Round(above)
  <2>1. \A n \in Nat : R[n] = IF n <= 1 THEN n ELSE 2 * above[(n + 1) \div 2]
    OBVIOUS
  <2>2. above = R
    BY <1>3
  <2> HIDE DEF R
  <2> QED BY <2>1, <2>2
<1> DEFINE S == {n \in Nat : above[n] \in Nat /\ above[n] >= n /\ Power(above[n])}
<1>6. ASSUME NEW n \in Nat, \A m \in 0..(n - 1) : m \in S
      PROVE  n \in S
  <2>1. CASE n <= 1
    <3>1. above[n] = n /\ n \in {0, 1}
      BY <1>5, <2>1
    <3> QED BY <3>1 DEF Power
  <2>2. CASE n > 1
    <3> DEFINE m == (n + 1) \div 2
    <3>1. m \in Nat /\ m < n /\ 2 * m >= n
      BY <1>1, <2>2
    <3>2. above[n] = 2 * above[m]
      BY <1>5, <2>2
    <3> HIDE DEF m
    <3>3. m \in 0..(n - 1)
      BY <3>1
    <3>4. above[m] \in Nat /\ above[m] >= m /\ Power(above[m])
      BY <1>6, <3>3
    <3>5. above[n] \in Nat /\ above[n] >= n
      BY <3>1, <3>2, <3>4
    <3>6. Power(above[n])
      BY <3>2, <3>4 DEF Power
    <3> QED BY <3>5, <3>6
  <2> QED BY <2>1, <2>2
<1>7. S \in SUBSET Nat
  OBVIOUS
<1> HIDE DEF S
<1>8. S = Nat
  BY <1>6, <1>7, Induction
<1> QED BY <1>4, <1>8 DEF S

\* The width that calls infer from the size is the one that offsets need.
Agrees(idx_size, dat_size) ==
  InferredWidth(ListSize(idx_size, dat_size)) = AddressWidth(idx_size, dat_size)

\* It is, but for 32768 slots and 65536 bytes.
LEMMA WidthsAgree ==
  ASSUME NEW x \in Nat, NEW y \in Nat, Power(x), Power(y),
         ~ (x = 32768 /\ y = 65536)
  PROVE  Agrees(x, y)
<1>1. CASE x <= 255 /\ y - 1 <= 255
  <2>1. x <= 128 /\ y <= 256
    BY <1>1 DEF Power
  <2>2. AddressWidth(x, y) = 1
    BY <1>1 DEF AddressWidth
  <2>3. ListSize(x, y) = 8 + 1 * x + y
    BY <2>2 DEF ListSize, HeaderSize
  <2> QED BY <2>1, <2>2, <2>3 DEF Agrees, InferredWidth
<1>2. CASE ~ (x <= 255 /\ y - 1 <= 255) /\ x <= 65535 /\ y - 1 <= 65535
  <2>1. x <= 32768 /\ y <= 65536 /\ (x >= 256 \/ y >= 512)
    BY <1>2 DEF Power
  <2>2. x <= 16384 \/ y <= 32768
    BY <2>1 DEF Power
  <2>3. AddressWidth(x, y) = 2
    BY <1>2 DEF AddressWidth
  <2>4. ListSize(x, y) = 16 + 2 * x + y
    BY <2>3 DEF ListSize, HeaderSize
  <2> QED BY <2>1, <2>2, <2>3, <2>4 DEF Agrees, InferredWidth
<1>3. CASE ~ (x <= 65535 /\ y - 1 <= 65535)
  <2>1. x >= 65536 \/ y >= 131072
    BY <1>3 DEF Power
  <2>2. AddressWidth(x, y) = 4
    BY <1>3 DEF AddressWidth
  <2>3. ListSize(x, y) = 32 + 4 * x + y
    BY <2>2 DEF ListSize, HeaderSize
  <2> QED BY <2>1, <2>2, <2>3 DEF Agrees, InferredWidth
<1> QED BY <1>1, <1>2, <1>3

\* An allocation for idx items and dat bytes: it has room for more, and a size
\* that tells the width of its offsets.
Sound(a, idx, dat) ==
  /\ a \in [idx_size : Nat, dat_size : Nat, size : Nat]
  /\ a.idx_size > idx
  /\ a.dat_size >= dat + 3 /\ a.dat_size >= 8
  /\ a.size = ListSize(a.idx_size, a.dat_size)
  /\ Agrees(a.idx_size, a.dat_size)

\* An allocation of sizes that agree has the size of its parts.
LEMMA SizeType ==
  ASSUME NEW x \in Nat, NEW y \in Nat
  PROVE  ListSize(x, y) \in Nat
<1>1. CASE AddressWidth(x, y) = 1
  BY <1>1 DEF ListSize, HeaderSize
<1>2. CASE AddressWidth(x, y) = 2
  BY <1>2 DEF ListSize, HeaderSize
<1>3. CASE AddressWidth(x, y) = 4
  BY <1>3 DEF ListSize, HeaderSize
<1>4. AddressWidth(x, y) \in {1, 2, 4}
  BY DEF AddressWidth
<1> QED BY <1>1, <1>2, <1>3, <1>4

\* alloc_size() ends, at once or after a turn, and what it returns is sound.
LEMMA AllocSound ==
  ASSUME NEW idx \in Nat, NEW dat \in Nat
  PROVE  Sound(AllocSize(idx, dat), idx, dat)
<1> DEFINE x == IF idx < 2 THEN 4 ELSE Pow2Size(idx + 1)
           y == IF dat < 4 THEN 8 ELSE Pow2Size(dat + 3)
           Round(f) ==
             [i \in Nat |->
                IF i = 0
                THEN <<IF idx < 2 THEN 4 ELSE Pow2Size(idx + 1),
                       IF dat < 4 THEN 8 ELSE Pow2Size(dat + 3)>>
                ELSE IF i % 2 = 1
                THEN <<f[i - 1][1], Pow2Size(f[i - 1][2] + 3)>>
                ELSE <<Pow2Size(f[i - 1][1] + 1), f[i - 1][2]>>]
           grow == CHOOSE f : f = Round(f)
           fits(s) == InferredWidth(ListSize(s[1], s[2])) = AddressWidth(s[1], s[2])
           tries == 0..20
           i == CHOOSE k \in tries : fits(grow[k]) /\ \A j \in 0..(k - 1) : ~ fits(grow[j])
<1>1. AllocSize(idx, dat) = [idx_size |-> grow[i][1], dat_size |-> grow[i][2],
                             size |-> ListSize(grow[i][1], grow[i][2])]
  BY DEF AllocSize
<1>2. \E f : f = Round(f)
  <2> DEFINE T == Nat \X Nat
             B == {0}
             a == [n \in Nat |-> <<x, y>>]
             d == [n \in Nat |-> IF n = 0 THEN 0 ELSE n - 1]
             h == [s \in Nat \X T |->
                     IF s[1] % 2 = 1 THEN <<s[2][1], Pow2Size(s[2][2] + 3)>>
                     ELSE <<Pow2Size(s[2][1] + 1), s[2][2]>>]
  <2>1. B \in SUBSET Nat
    OBVIOUS
  <2>2. a \in [Nat -> T]
    <3>1. x \in Nat
      BY RoundedUp
    <3>2. y \in Nat
      BY RoundedUp
    <3> HIDE DEF x, y
    <3> QED BY <3>1, <3>2
  <2>3. d \in [Nat -> Nat]
    OBVIOUS
  <2>4. h \in [Nat \X T -> T]
    <3>1. ASSUME NEW n \in Nat, NEW u \in Nat, NEW v \in Nat
          PROVE  Pow2Size(u + 1) \in Nat /\ Pow2Size(v + 3) \in Nat
      BY RoundedUp
    <3>2. ASSUME NEW s \in Nat \X T
          PROVE  (IF s[1] % 2 = 1 THEN <<s[2][1], Pow2Size(s[2][2] + 3)>>
                  ELSE <<Pow2Size(s[2][1] + 1), s[2][2]>>) \in T
      <4>1. s[2] \in T /\ s[2][1] \in Nat /\ s[2][2] \in Nat
        OBVIOUS
      <4>2. Pow2Size(s[2][1] + 1) \in Nat /\ Pow2Size(s[2][2] + 3) \in Nat
        BY <3>1, <4>1
      <4> QED BY <4>1, <4>2
    <3> QED BY <3>2
  <2>5. \A n \in Nat \ B : d[n] < n
    OBVIOUS
  <2>6. PICK f \in [Nat -> T] : Recurs(f, B, a, d, h)
    <3> HIDE DEF T, B, a, d, h
    <3> QED BY <2>1, <2>2, <2>3, <2>4, <2>5, Recursion
  <2>7. \A n \in Nat : f[n] = IF n \in B THEN a[n] ELSE h[<<n, f[d[n]]>>]
    <3> HIDE DEF T, B, a, d, h
    <3> QED BY <2>6 DEF Recurs
  <2>8. ASSUME NEW n \in Nat
        PROVE  f[n] = Round(f)[n]
    <3>1. CASE n = 0
      <4>1. f[n] = a[n]
        <5>1. n \in B
          BY <3>1
        <5> HIDE DEF T, B, a, d, h
        <5> QED BY <2>7, <5>1
      <4> QED BY <3>1, <4>1
    <3>2. CASE n # 0
      <4>1. f[n] = h[<<n, f[d[n]]>>]
        <5>1. n \notin B
          BY <3>2
        <5> HIDE DEF T, B, a, d, h
        <5> QED BY <2>7, <5>1
      <4>2. d[n] = n - 1 /\ n - 1 \in Nat
        BY <3>2
      <4>3. <<n, f[n - 1]>> \in Nat \X T
        <5> HIDE DEF T
        <5> QED BY <4>2
      <4> DEFINE s == <<n, f[n - 1]>>
      <4>4. h[s] = IF s[1] % 2 = 1 THEN <<s[2][1], Pow2Size(s[2][2] + 3)>>
                   ELSE <<Pow2Size(s[2][1] + 1), s[2][2]>>
        <5> HIDE DEF s, T
        <5> QED BY <4>3 DEF s
      <4>5. f[n] = h[s]
        <5> HIDE DEF h, d
        <5> QED BY <4>1, <4>2
      <4>6. s[1] = n /\ s[2] = f[n - 1]
        OBVIOUS
      <4>7. f[n] = IF n % 2 = 1 THEN <<f[n - 1][1], Pow2Size(f[n - 1][2] + 3)>>
                   ELSE <<Pow2Size(f[n - 1][1] + 1), f[n - 1][2]>>
        <5> HIDE DEF h, s
        <5> QED BY <4>4, <4>5, <4>6
      <4> HIDE DEF s, h, d
      <4> QED BY <3>2, <4>7
    <3> QED BY <3>1, <3>2
  <2>9. f = Round(f)
    <3> DEFINE R == Round(f)
    <3>1. \A n \in Nat : f[n] = R[n]
      BY <2>8
    <3>2. R = [n \in Nat |-> R[n]] /\ f = [n \in Nat |-> f[n]]
      OBVIOUS
    <3> HIDE DEF R
    <3>3. f = R
      BY <3>1, <3>2
    <3> QED BY <3>3 DEF R
  <2> HIDE DEF Round
  <2> QED BY <2>9
<1>3. grow = Round(grow)
  <2> HIDE DEF Round
  <2> QED BY <1>2
<1> HIDE DEF grow
<1>4. grow[0] = <<x, y>> /\ grow[1] = <<grow[0][1], Pow2Size(grow[0][2] + 3)>>
  <2> DEFINE R == Round(grow)
  <2>1. R[0] = <<x, y>>
    OBVIOUS
  <2>2. R[1] = <<grow[0][1], Pow2Size(grow[0][2] + 3)>>
    <3>1. 1 % 2 = 1 /\ 1 - 1 = 0 /\ 1 # 0 /\ 1 \in Nat
      BY SMT
    <3> QED BY <3>1
  <2>3. grow = R
    BY <1>3
  <2> HIDE DEF R
  <2> QED BY <2>1, <2>2, <2>3
<1>5. x \in Nat /\ x > idx /\ Power(x)
  <2>1. CASE idx < 2
    BY <2>1 DEF Power
  <2>2. CASE ~ (idx < 2)
    <3>1. idx + 1 \in Nat /\ x = Pow2Size(idx + 1)
      BY <2>2
    <3>2. x \in Nat /\ x >= idx + 1 /\ Power(x)
      BY <3>1, RoundedUp
    <3> HIDE DEF x
    <3> QED BY <3>2
  <2> QED BY <2>1, <2>2
<1>6. y \in Nat /\ y >= dat + 3 /\ y >= 7 /\ Power(y)
  <2>1. CASE dat < 4
    BY <2>1 DEF Power
  <2>2. CASE ~ (dat < 4)
    <3>1. dat + 3 \in Nat /\ y = Pow2Size(dat + 3)
      BY <2>2
    <3>2. y \in Nat /\ y >= dat + 3 /\ Power(y)
      BY <3>1, RoundedUp
    <3> HIDE DEF y
    <3> QED BY <2>2, <3>2
  <2> QED BY <2>1, <2>2
<1> HIDE DEF x, y
<1>7. y >= 8
  BY <1>6 DEF Power
<1> DEFINE z == Pow2Size(y + 3)
<1>8. z \in Nat /\ z >= y + 3 /\ Power(z)
  BY <1>6, RoundedUp
<1> HIDE DEF z
<1>9. grow[0][1] = x /\ grow[0][2] = y /\ grow[1][1] = x /\ grow[1][2] = z
  BY <1>4 DEF z
<1>10. fits(grow[0]) \/ fits(grow[1])
  <2>1. /\ Agrees(x, y) => fits(grow[0])
        /\ Agrees(x, z) => fits(grow[1])
    BY <1>9 DEF Agrees
  <2> HIDE DEF fits
  <2>2. CASE ~ (x = 32768 /\ y = 65536)
    <3>1. Agrees(x, y)
      BY <1>5, <1>6, <2>2, WidthsAgree
    <3> QED BY <2>1, <3>1
  <2>3. CASE x = 32768 /\ y = 65536
    <3>1. z # 65536
      BY <1>8, <2>3
    <3>2. Agrees(x, z)
      BY <1>5, <1>8, <3>1, WidthsAgree
    <3> QED BY <2>1, <3>2
  <2> QED BY <2>2, <2>3
<1>11. i \in {0, 1} /\ fits(grow[i])
  <2> DEFINE P(k) == fits(grow[k]) /\ \A j \in 0..(k - 1) : ~ fits(grow[j])
  <2>1. \E k \in tries : P(k)
    <3>1. CASE fits(grow[0])
      <4>1. 0 \in tries /\ 0..(0 - 1) = {}
        OBVIOUS
      <4> QED BY <3>1, <4>1
    <3>2. CASE ~ fits(grow[0])
      <4>1. 1 \in tries /\ \A j \in 0..(1 - 1) : j = 0
        OBVIOUS
      <4>2. P(1)
        <5> HIDE DEF fits
        <5> QED BY <1>10, <3>2, <4>1
      <4> HIDE DEF P
      <4> QED BY <4>1, <4>2
    <3> QED BY <3>1, <3>2
  <2>2. i \in tries /\ P(i)
    <3>1. i = CHOOSE k \in tries : P(k)
      OBVIOUS
    <3> HIDE DEF P, i
    <3> QED BY <2>1, <3>1
  <2> HIDE DEF i, fits
  <2>3. i \in Nat
    BY <2>2
  <2>4. ASSUME i > 1 PROVE FALSE
    <3>1. 0 \in 0..(i - 1) /\ 1 \in 0..(i - 1)
      BY <2>3, <2>4
    <3> QED BY <1>10, <2>2, <3>1
  <2> QED BY <2>2, <2>3, <2>4
<1> DEFINE u == grow[i][1]
           v == grow[i][2]
<1>12. /\ u \in Nat /\ u > idx
       /\ v \in Nat /\ v >= dat + 3 /\ v >= 8
  <2> HIDE DEF i, fits
  <2>1. u = x /\ (v = y \/ v = z)
    BY <1>9, <1>11
  <2>2. z >= dat + 3 /\ z >= 8
    BY <1>6, <1>7, <1>8
  <2> QED BY <1>5, <1>6, <1>7, <1>8, <2>1, <2>2
<1>13. Agrees(u, v)
  BY <1>11 DEF Agrees
<1>14. AllocSize(idx, dat) = [idx_size |-> u, dat_size |-> v, size |-> ListSize(u, v)]
  BY <1>1
<1> HIDE DEF u, v, i, fits
<1>15. ListSize(u, v) \in Nat
  BY <1>12, SizeType
<1> QED BY <1>12, <1>13, <1>14, <1>15 DEF Sound

-----------------------------------------------------------------------------
(* The theorems. *)

\* The inductive invariant: an item that was refused would still be counted
\* within bounds.
AllocInv ==
  /\ AllocTypeOK /\ AllocFits
  /\ pending # NoItem => count < MaxCount /\ data_len + pending <= MaxData

\* An allocation sound for what is stored.
LEMMA SoundFits ==
  ASSUME Sound(alloc, count, data_len), count \in Nat, data_len \in Nat
  PROVE  AllocFits
<1> DEFINE u == alloc.idx_size
           v == alloc.dat_size
           width == AddressWidth(u, v)
<1>1. u \in Nat /\ v \in Nat /\ u > count /\ v >= data_len + 3
  BY DEF Sound
<1>2. Fits
  BY <1>1 DEF Fits
<1>3. alloc.size = ListSize(u, v) /\ InferredWidth(alloc.size) = width
  BY DEF Sound, Agrees
<1>4. width = 1 => u <= 256 /\ v <= 256
  BY <1>1 DEF AddressWidth
<1>5. width = 2 => u <= 65536 /\ v <= 65536
  BY <1>1 DEF AddressWidth
<1>6. MemSize(alloc) = alloc.size
  <2>1. width \in {1, 2, 4}
    BY DEF AddressWidth
  <2>2. MemSize(alloc) = HeaderSize(width) + u * width + v
    BY <1>3 DEF MemSize
  <2>3. ListSize(u, v) = HeaderSize(width) + width * u + v
    BY DEF ListSize
  <2> HIDE DEF u, v, width
  <2>4. u * width = width * u
    BY <1>1, <2>1
  <2> QED BY <1>3, <2>2, <2>3, <2>4
<1> HIDE DEF u, v, width
<1>7. WidthAgrees
  BY <1>3, <1>4, <1>5, <1>6 DEF WidthAgrees, u, v, width
<1> QED BY <1>2, <1>7 DEF AllocFits

\* resize_size() for what is stored and a refused item.
LEMMA Resized ==
  ASSUME NEW cnt \in Nat, NEW len \in Nat, NEW dat \in Nat
  PROVE  /\ Sound(ResizeSize(cnt, len, 1, dat), cnt + 1, len + dat)
         /\ cnt + 1 < ResizeSize(cnt, len, 1, dat).idx_size - 1
         /\ len + dat < ResizeSize(cnt, len, 1, dat).dat_size - 1
<1> DEFINE p == (1 + cnt) \div 2
           q == (dat + len) \div 2
           x == (1 + cnt) + p + 2
           y == (dat + len) + q + 2
<1>1. p \in Nat
  BY SMT
<1>2. q \in Nat
  BY SMT
<1>3. ResizeSize(cnt, len, 1, dat) = AllocSize(x, y)
  BY DEF ResizeSize
<1> HIDE DEF p, q
<1>4. x \in Nat /\ y \in Nat /\ x >= cnt + 3 /\ y >= len + dat + 2
  BY <1>1, <1>2
<1> HIDE DEF x, y
<1>5. Sound(AllocSize(x, y), x, y)
  BY <1>4, AllocSound
<1> DEFINE a == AllocSize(x, y)
<1>6. /\ a \in [idx_size : Nat, dat_size : Nat, size : Nat]
      /\ a.idx_size > x /\ a.dat_size >= y + 3 /\ a.dat_size >= 8
      /\ a.size = ListSize(a.idx_size, a.dat_size) /\ Agrees(a.idx_size, a.dat_size)
  BY <1>5 DEF Sound
<1> HIDE DEF a
<1>7. a.idx_size > cnt + 1 /\ a.dat_size >= (len + dat) + 3
  BY <1>4, <1>6
<1>8. cnt + 1 < a.idx_size - 1 /\ len + dat < a.dat_size - 1
  BY <1>4, <1>6
<1>9. Sound(a, cnt + 1, len + dat)
  BY <1>6, <1>7 DEF Sound
<1> QED BY <1>3, <1>8, <1>9 DEF a

\* The first allocation is sound for the empty list.
LEMMA AllocInitInv == AllocInit => AllocInv
<1> SUFFICES ASSUME AllocInit PROVE AllocInv
  OBVIOUS
<1>1. PICK idx \in Requests, dat \in ItemSizes : alloc = AllocSize(idx, dat)
  BY DEF AllocInit
<1>2. count = 0 /\ data_len = 0 /\ pending = NoItem
  BY DEF AllocInit
<1>3. idx \in Nat /\ dat \in Nat
  BY AllocAssumption DEF AllocAssumption
<1>4. Sound(alloc, idx, dat)
  BY <1>1, <1>3, AllocSound
<1>5. Sound(alloc, 0, 0)
  BY <1>3, <1>4 DEF Sound
<1>6. AllocFits
  BY <1>2, <1>5, SoundFits
<1>7. AllocTypeOK
  BY <1>2, <1>5, AllocAssumption DEF AllocTypeOK, AllocAssumption, Sound
<1> QED BY <1>2, <1>6, <1>7 DEF AllocInv

\* The item pushed is within what the allocation was sound for, or is refused.
LEMMA PushInv ==
  ASSUME AllocInv, NEW size \in ItemSizes, Push(size)
  PROVE  AllocInv'
<1>1. /\ count \in Nat /\ data_len \in Nat /\ size \in Nat /\ MaxCount \in Nat /\ MaxData \in Nat
      /\ alloc.idx_size \in Nat /\ alloc.dat_size \in Nat
  BY AllocAssumption DEF AllocAssumption, AllocInv, AllocTypeOK
<1>2. /\ count < MaxCount /\ data_len + size <= MaxData /\ pending = NoItem
      /\ alloc' = alloc
  BY DEF Push
<1>3. CASE AllocFull(size)
  <2>1. pending' = size /\ count' = count /\ data_len' = data_len
    BY <1>3 DEF Push
  <2>2. AllocTypeOK'
    BY <1>2, <2>1 DEF AllocInv, AllocTypeOK
  <2>3. AllocFits'
    BY <1>2, <2>1 DEF AllocInv, AllocFits, Fits, WidthAgrees
  <2> QED BY <1>2, <2>1, <2>2, <2>3 DEF AllocInv
<1>4. CASE ~ AllocFull(size)
  <2>1. pending' = NoItem /\ count' = count + 1 /\ data_len' = data_len + size
    BY <1>2, <1>4 DEF Push
  <2>2. count + 1 < alloc.idx_size /\ data_len + size < alloc.dat_size
    BY <1>1, <1>4 DEF AllocFull
  <2>3. AllocTypeOK'
    BY <1>1, <1>2, <2>1 DEF AllocInv, AllocTypeOK
  <2>4. AllocFits'
    BY <1>2, <2>1, <2>2 DEF AllocInv, AllocFits, Fits, WidthAgrees
  <2> QED BY <2>1, <2>3, <2>4 DEF AllocInv
<1> QED BY <1>3, <1>4

\* The larger allocation is sound for what it has then.
LEMMA ResizeInv ==
  ASSUME AllocInv, Resize
  PROVE  /\ AllocInv'
         /\ count' < alloc'.idx_size - 1 /\ data_len' < alloc'.dat_size - 1
<1>1. /\ count \in Nat /\ data_len \in Nat /\ pending \in Nat /\ MaxCount \in Nat /\ MaxData \in Nat
      /\ count < MaxCount /\ data_len + pending <= MaxData
  BY AllocAssumption DEF AllocAssumption, AllocInv, AllocTypeOK, Resize
<1>2. /\ alloc' = ResizeSize(count, data_len, 1, pending)
      /\ count' = count + 1 /\ data_len' = data_len + pending /\ pending' = NoItem
  BY DEF Resize
<1>3. /\ Sound(alloc', count', data_len')
      /\ count' < alloc'.idx_size - 1 /\ data_len' < alloc'.dat_size - 1
  BY <1>1, <1>2, Resized
<1>4. count' \in 0..MaxCount /\ data_len' \in 0..MaxData
  BY <1>1, <1>2
<1>5. AllocTypeOK'
  BY <1>2, <1>3, <1>4 DEF AllocTypeOK, Sound
<1>6. (Sound(alloc, count, data_len) /\ count \in Nat /\ data_len \in Nat => AllocFits)'
  BY SoundFits, PTL
<1>7. AllocFits'
  BY <1>3, <1>4, <1>6
<1> QED BY <1>2, <1>3, <1>5, <1>7 DEF AllocInv

\* So is the smaller one.
LEMMA ShrinkInv ==
  ASSUME AllocInv, Shrink
  PROVE  AllocInv'
<1>1. count \in Nat /\ data_len \in Nat
  BY AllocAssumption DEF AllocAssumption, AllocInv, AllocTypeOK
<1>2. /\ alloc' = AllocSize(count, data_len) /\ pending = NoItem
      /\ count' = count /\ data_len' = data_len /\ pending' = NoItem
  BY DEF Shrink
<1>3. Sound(alloc', count', data_len')
  BY <1>1, <1>2, AllocSound
<1>4. AllocTypeOK'
  BY <1>2, <1>3 DEF AllocInv, AllocTypeOK, Sound
<1>5. (Sound(alloc, count, data_len) /\ count \in Nat /\ data_len \in Nat => AllocFits)'
  BY SoundFits, PTL
<1>6. AllocFits'
  BY <1>1, <1>2, <1>3, <1>5
<1> QED BY <1>2, <1>4, <1>6 DEF AllocInv

\* Every step keeps the invariant.
LEMMA AllocNextInv == AllocInv /\ [AllocNext]_allocvars => AllocInv'
<1> SUFFICES ASSUME AllocInv, [AllocNext]_allocvars PROVE AllocInv'
  OBVIOUS
<1>1. ASSUME NEW size \in ItemSizes, Push(size) PROVE AllocInv'
  BY <1>1, PushInv
<1>2. CASE Resize
  BY <1>2, ResizeInv
<1>3. CASE Shrink
  BY <1>3, ShrinkInv
<1>4. CASE UNCHANGED allocvars
  BY <1>4 DEF allocvars, AllocInv, AllocTypeOK, AllocFits, Fits, WidthAgrees
<1> QED BY <1>1, <1>2, <1>3, <1>4 DEF AllocNext

\* The invariant of every behaviour.
LEMMA Invariant == AllocSpec => []AllocInv
  BY AllocInitInv, AllocNextInv, PTL DEF AllocSpec

\* What is stored fits the allocation, whose size is read as the width that its
\* offsets have: alloc_size(), resize_size() and used_size() never give a size
\* for which is_uint8() or is_uint16() answer wrong.
THEOREM AllocationFits == AllocSpec => []AllocFits
<1>1. AllocInv => AllocFits
  BY DEF AllocInv
<1> QED BY <1>1, Invariant, PTL

\* One resize after a LIST_FULL is enough: the refused item is in, and another
\* has room.
THEOREM ResizeSuffices == AllocSpec => GrowsEnough
<1> DEFINE Enough == pending # NoItem => /\ count' < alloc'.idx_size - 1
                                         /\ data_len' < alloc'.dat_size - 1
<1>1. AllocInv /\ [AllocNext]_allocvars => [Enough]_allocvars
  <2> SUFFICES ASSUME AllocInv, AllocNext, pending # NoItem
               PROVE  count' < alloc'.idx_size - 1 /\ data_len' < alloc'.dat_size - 1
    OBVIOUS
  <2>1. Resize
    BY DEF AllocNext, Push, Shrink
  <2> QED BY <2>1, ResizeInv
<1> QED BY <1>1, Invariant, PTL DEF AllocSpec, GrowsEnough
=============================================================================
