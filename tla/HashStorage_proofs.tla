-------------------------- MODULE HashStorage_proofs --------------------------
(***************************************************************************)
(* Theorems about HashStorage: for every size of the rings, all keys and   *)
(* values and every hash to merge with, hverify() finds nothing wrong but  *)
(* bytes that were dropped or a map that has none (HVerify), and no search *)
(* takes the map for an item (MapNoItem).                                  *)
(*                                                                         *)
(* A hash is a list that may count more bytes than its offsets span        *)
(* (hremall() and hinter() drop items and leave data_len), so the lemmas   *)
(* of ListOps_proofs, which are about lists whose data_len is what they    *)
(* span, do not apply as they stand.  The first part gets them back: such  *)
(* a list is a proper one, Tight, with a number added to its data_len,     *)
(* Loose, and every operator commutes with the addition (Rings).           *)
(*                                                                         *)
(* The second part says what each operation does to the items, and is done *)
(* with the rings: writing into an item (Patch), the map growing towards   *)
(* the end of the list (ResizeRings), room made in an item (StretchRings). *)
(*                                                                         *)
(* The third is about the items alone: Sound says that the map, which is   *)
(* item 0, has the byte of the key of each, and 0 for itself.  That is     *)
(* inductive with the order of the offsets (Proper).  It does not take     *)
(* that a search finds the right item: one with the same byte and a key as *)
(* long is enough, which is what the code's comparison of wrapped keys     *)
(* needs (see Equals in ListOps).  The loops of hinter() and hunion() are  *)
(* recursive functions, shown to exist first.                              *)
(***************************************************************************)
EXTENDS HashStorage, ListOps_proofs

-----------------------------------------------------------------------------
(* Lists that count bytes which nothing holds. *)

\* The list without them, and a list with k of them more.
Tight(l) == [l EXCEPT !.data_len = Distance(l, l.count)]
Loose(t, k) == [t EXCEPT !.data_len = @ + k]

\* A list as the operations of a hash leave it.
Rings(l) ==
  /\ WellFormed(l)
  /\ Layout(Tight(l))
  /\ Distance(l, l.count) <= l.data_len
  /\ l.data_len < l.data_size

\* l and m differ at most in data_len.
SameBut(l, m) ==
  /\ m.index_size = l.index_size /\ m.data_size = l.data_size
  /\ m.first = l.first /\ m.count = l.count
  /\ m.idx = l.idx /\ m.blob = l.blob

\* They have the same offsets and items.
LEMMA SameRead ==
  ASSUME NEW l, NEW m, SameBut(l, m)
  PROVE  /\ \A n : IndexRef(m, n) = IndexRef(l, n) /\ StartOf(m, n) = StartOf(l, n)
         /\ \A n : EndOf(m, n) = EndOf(l, n) /\ GetSize(m, n) = GetSize(l, n)
         /\ \A n : Distance(m, n) = Distance(l, n) /\ Item(m, n) = Item(l, n)
         /\ Items(m) = Items(l)
<1> USE DEF SameBut
<1>1. \A n : IndexRef(m, n) = IndexRef(l, n)
  BY DEF IndexRef
<1>2. \A n : StartOf(m, n) = StartOf(l, n)
  BY <1>1 DEF StartOf
<1>3. \A n : EndOf(m, n) = EndOf(l, n)
  BY <1>1 DEF EndOf
<1>4. \A n : GetSize(m, n) = GetSize(l, n)
  BY <1>2, <1>3 DEF GetSize, Span
<1>5. \A n : Distance(m, n) = Distance(l, n)
  BY <1>2 DEF Distance
<1>6. \A n : Item(m, n) = Item(l, n)
  BY <1>2, <1>4 DEF Item, ReadBytes, DataOffset
<1>7. Items(m) = Items(l)
  BY <1>6 DEF Items
<1> QED BY <1>1, <1>2, <1>3, <1>4, <1>5, <1>6, <1>7

\* Another data_len.
LEMMA Recounted ==
  ASSUME NEW l, WellFormed(l), NEW d \in Nat
  PROVE  LET m == [l EXCEPT !.data_len = d]
         IN  WellFormed(m) /\ SameBut(l, m) /\ m.data_len = d
<1> DEFINE m == [l EXCEPT !.data_len = d]
<1>1. SameBut(l, m) /\ m.data_len = d
  BY DEF SameBut, WellFormed
<1>2. m \in [index_size : Nat, data_size : Nat,
             first : Nat, count : Nat, data_len : Nat,
             idx : [0..(l.index_size - 1) -> 0..(l.data_size - 1)],
             blob : [0..(l.data_size - 1) -> Byte]]
  BY DEF WellFormed
<1>3. l.index_size > 1 /\ l.data_size > 1 /\ l.first < l.index_size
  BY DEF WellFormed
<1> HIDE DEF m
<1>4. WellFormed(m)
  BY <1>1, <1>2, <1>3 DEF WellFormed, SameBut
<1> QED BY <1>1, <1>4 DEF m

\* Bytes that are counted for nothing leave a list a proper one.
LEMMA LooseRings ==
  ASSUME NEW t, WellFormed(t), Layout(t), NEW k \in Nat, t.data_len + k < t.data_size
  PROVE  /\ Rings(Loose(t, k)) /\ SameBut(t, Loose(t, k))
         /\ Loose(t, k).data_len = t.data_len + k /\ Items(Loose(t, k)) = Items(t)
<1> DEFINE m == Loose(t, k)
<1>1. t.data_len \in Nat /\ t.data_len + k \in Nat
  BY HeaderType
<1>2. m = [t EXCEPT !.data_len = t.data_len + k]
  BY DEF Loose
<1>3. WellFormed(m) /\ SameBut(t, m) /\ m.data_len = t.data_len + k
  <2> HIDE DEF m
  <2> QED BY <1>1, <1>2, Recounted
<1>4. Distance(m, m.count) = t.data_len
  <2>1. Distance(t, t.count) = t.data_len
    BY LayoutElim
  <2> HIDE DEF m
  <2> QED BY <1>3, <2>1, SameRead DEF SameBut
<1>5. Tight(m) = t
  <2>1. Tight(m) = [m EXCEPT !.data_len = t.data_len]
    BY <1>4 DEF Tight
  <2> HIDE DEF m
  <2>2. Tight(m) = [t EXCEPT !.data_len = t.data_len]
    BY <1>2, <2>1 DEF WellFormed
  <2> QED BY <2>2 DEF WellFormed
<1> HIDE DEF m
<1>6. Rings(m)
  BY <1>1, <1>3, <1>4, <1>5 DEF Rings, SameBut
<1>7. Items(m) = Items(t)
  BY <1>3, SameRead
<1> QED BY <1>3, <1>6, <1>7 DEF m

\* Every list is one without such bytes, and a number of them.
LEMMA RingsLoose ==
  ASSUME NEW l, Rings(l)
  PROVE  \E t, k : /\ WellFormed(t) /\ Layout(t) /\ k \in Nat /\ l = Loose(t, k)
                   /\ t.data_len + k < t.data_size
                   /\ SameBut(t, l) /\ l.data_len = t.data_len + k /\ Items(l) = Items(t)
<1> DEFINE t == Tight(l)
           k == l.data_len - Distance(l, l.count)
<1>1. WellFormed(l) /\ l.data_len \in Nat /\ l.data_size \in Nat /\ l.count \in Nat
  BY HeaderType DEF Rings
<1>2. Distance(l, l.count) \in Nat
  <2>1. Distance(l, l.count) \in 0..(l.data_size - 1)
    BY <1>1, DistanceType
  <2> QED BY <1>1, <2>1
<1>3. WellFormed(t) /\ SameBut(l, t) /\ t.data_len = Distance(l, l.count)
  BY <1>1, <1>2, Recounted DEF Tight
<1>4. Layout(t)
  BY DEF Rings
<1>5. k \in Nat /\ l.data_len = t.data_len + k /\ t.data_len + k < t.data_size
  BY <1>1, <1>2, <1>3 DEF Rings, SameBut
<1>6. l = Loose(t, k)
  <2>1. Loose(t, k) = [t EXCEPT !.data_len = l.data_len]
    <3> HIDE DEF t, k
    <3> QED BY <1>5 DEF Loose
  <2>2. [t EXCEPT !.data_len = l.data_len] = l
    BY <1>1 DEF Tight, WellFormed
  <2> QED BY <2>1, <2>2
<1>7. SameBut(t, l)
  BY <1>3 DEF SameBut
<1> HIDE DEF t, k
<1>8. Items(l) = Items(t)
  BY <1>7, SameRead
<1> QED BY <1>3, <1>4, <1>5, <1>6, <1>7, <1>8

\* What a list of items is made of.
LEMMA RingsItems ==
  ASSUME NEW l, Rings(l)
  PROVE  /\ WellFormed(l)
         /\ l.count \in Nat /\ l.count < l.index_size
         /\ l.data_len \in Nat /\ l.data_size \in Nat /\ l.data_len < l.data_size
         /\ Items(l) \in Seq(Seq(Byte)) /\ Len(Items(l)) = l.count
         /\ \A n \in 0..(l.count - 1) :
              /\ Items(l)[n + 1] = Item(l, n) /\ Item(l, n) \in Seq(Byte)
              /\ GetSize(l, n) = Len(Item(l, n)) /\ GetSize(l, n) <= l.data_len
<1>1. PICK t, k : /\ WellFormed(t) /\ Layout(t) /\ k \in Nat /\ l = Loose(t, k)
                  /\ t.data_len + k < t.data_size
                  /\ SameBut(t, l) /\ l.data_len = t.data_len + k /\ Items(l) = Items(t)
  BY RingsLoose
<1>2. /\ t.count \in Nat /\ t.count < t.index_size /\ t.data_len \in Nat
      /\ l.count = t.count
  BY <1>1, LayoutFacts DEF SameBut
<1>3. /\ Items(t) \in Seq(Seq(Byte)) /\ Len(Items(t)) = t.count
      /\ \A n \in 1..t.count : Items(t)[n] = Item(t, n - 1)
  BY <1>1, ItemsType
<1>4. ASSUME NEW n \in 0..(l.count - 1)
      PROVE  /\ Items(l)[n + 1] = Item(l, n) /\ Item(l, n) \in Seq(Byte)
             /\ GetSize(l, n) = Len(Item(l, n)) /\ GetSize(l, n) <= l.data_len
  <2>1. n \in 0..(t.count - 1) /\ n + 1 \in 1..t.count /\ (n + 1) - 1 = n
    BY <1>2
  <2>2. Item(l, n) = Item(t, n) /\ GetSize(l, n) = GetSize(t, n)
    BY <1>1, SameRead
  <2>3. Item(t, n) \in Seq(Byte) /\ Len(Item(t, n)) = GetSize(t, n)
    BY <1>1, <2>1, ItemBytes
  <2>4. GetSize(t, n) \in 0..t.data_len
    BY <1>1, <2>1, SizeDistance
  <2> QED BY <1>1, <1>2, <1>3, <2>1, <2>2, <2>3, <2>4
<1>5. WellFormed(l) /\ l.data_len < l.data_size
  BY DEF Rings
<1> QED BY <1>1, <1>2, <1>3, <1>4, <1>5, HeaderType DEF SameBut

\* rpush() of what fits.
LEMMA RPushRings ==
  ASSUME NEW l, Rings(l), NEW v \in Seq(Byte), ~ Full(l, Len(v))
  PROVE  Rings(RPushItem(l, v)) /\ Items(RPushItem(l, v)) = Append(Items(l), v)
<1>1. PICK t, k : /\ WellFormed(t) /\ Layout(t) /\ k \in Nat /\ l = Loose(t, k)
                  /\ t.data_len + k < t.data_size
                  /\ SameBut(t, l) /\ l.data_len = t.data_len + k /\ Items(l) = Items(t)
  BY RingsLoose
<1>2. /\ t.count \in Nat /\ t.index_size \in Nat /\ t.data_len \in Nat /\ t.data_size \in Nat
      /\ Len(v) \in Nat
  BY <1>1, HeaderType
<1>3. ~ Full(t, Len(v)) /\ t.data_len + Len(v) + k < t.data_size
  BY <1>1, <1>2 DEF Full, DataFull, SameBut
<1> DEFINE g == RPushItem(t, v)
<1>4. WellFormed(g) /\ Layout(g) /\ Items(g) = Append(Items(t), v)
  BY <1>1, <1>3, RPushLayout, RPushItems
<1>5. g.data_len = t.data_len + Len(v) /\ g.data_size = t.data_size
  BY <1>1 DEF RPushItem, CopyInto, WellFormed
<1>6. RPushItem(l, v) = Loose(g, k)
  <2>1. \A n : IndexRef(l, n) = IndexRef(t, n) /\ StartOf(l, n) = StartOf(t, n)
    BY <1>1, SameRead
  <2>2. /\ l.count = t.count /\ l.data_size = t.data_size
    BY <1>1 DEF SameBut
  <2> DEFINE start == StartOf(t, t.count)
             end   == DataOffset(t, start, Len(v))
             idx   == [t.idx EXCEPT ![IndexRef(t, t.count + 1)] = end]
             blob  == [p \in DOMAIN t.blob |->
                         LET j == (p - start) % t.data_size
                         IN  IF j < Len(v) THEN v[j + 1] ELSE t.blob[p]]
  <2>3. g = [t EXCEPT !.count = t.count + 1, !.idx = idx,
                      !.data_len = t.data_len + Len(v), !.blob = blob]
    BY <1>1 DEF RPushItem, CopyInto, WellFormed
  <2>4. RPushItem(l, v) = [l EXCEPT !.count = t.count + 1, !.idx = idx,
                      !.data_len = l.data_len + Len(v), !.blob = blob]
    <3>1. RPushItem(l, v) = CopyInto([l EXCEPT !.count = t.count + 1, !.idx = idx,
                                               !.data_len = l.data_len + Len(v)], v, start)
      BY <1>1, <2>1, <2>2 DEF RPushItem, SameBut, WellFormed, DataOffset
    <3> HIDE DEF start, idx
    <3> QED BY <1>1, <2>2, <3>1 DEF CopyInto, SameBut, WellFormed, Loose
  <2> HIDE DEF idx, blob, g
  <2>5. l.data_len + Len(v) = (t.data_len + Len(v)) + k
    BY <1>1, <1>2
  <2>6. RPushItem(l, v) = [t EXCEPT !.count = t.count + 1, !.idx = idx,
                      !.data_len = (t.data_len + Len(v)) + k, !.blob = blob]
    BY <1>1, <2>4, <2>5 DEF Loose, WellFormed
  <2> QED BY <1>1, <2>3, <2>6 DEF Loose, WellFormed
<1> HIDE DEF g
<1> QED BY <1>1, <1>2, <1>3, <1>4, <1>5, <1>6, LooseRings

\* A list record, whatever its fields hold.
Rec(t) ==
  t = [index_size |-> t.index_size, data_size |-> t.data_size, first |-> t.first,
       count |-> t.count, data_len |-> t.data_len, idx |-> t.idx, blob |-> t.blob]

\* A list is a record of these fields.
LEMMA WellFormedRec ==
  ASSUME NEW t, WellFormed(t)
  PROVE  Rec(t)
  BY DEF WellFormed, Rec

\* Moving bytes does not look at data_len.
LEMMA CopyMoveLoose ==
  ASSUME NEW t, Rec(t), NEW k, NEW a, NEW b, NEW c
  PROVE  /\ CopyMove(Loose(t, k), a, b, c) = Loose(CopyMove(t, a, b, c), k)
         /\ Rec(CopyMove(t, a, b, c))
  BY DEF CopyMove, Loose, Rec

\* Nor does writing them.
LEMMA CopyIntoLoose ==
  ASSUME NEW t, Rec(t), NEW k, NEW v, NEW start
  PROVE  /\ CopyInto(Loose(t, k), v, start) = Loose(CopyInto(t, v, start), k)
         /\ Rec(CopyInto(t, v, start))
<1> DEFINE blob == [p \in DOMAIN t.blob |->
                      LET j == (p - start) % t.data_size
                      IN  IF j < Len(v) THEN v[j + 1] ELSE t.blob[p]]
<1>1. CopyInto(t, v, start) = [t EXCEPT !.blob = blob]
  BY DEF CopyInto
<1>2. CopyInto(Loose(t, k), v, start) = [Loose(t, k) EXCEPT !.blob = blob]
  BY DEF CopyInto, Loose, Rec
<1> HIDE DEF blob
<1> QED BY <1>1, <1>2 DEF Loose, Rec

\* A list and the loose one have the same fields but for data_len.
LEMMA LooseRead ==
  ASSUME NEW t, Rec(t), NEW k
  PROVE  /\ SameBut(t, Loose(t, k)) /\ Rec(Loose(t, k))
         /\ Loose(t, k).data_len = t.data_len + k
  BY DEF Loose, Rec, SameBut

\* move_tail()
LEMMA MoveTailLoose ==
  ASSUME NEW t, Rec(t), NEW k, NEW n, NEW amt
  PROVE  MoveTail(Loose(t, k), n, amt) = Loose(MoveTail(t, n, amt), k) /\ Rec(MoveTail(t, n, amt))
<1> DEFINE l         == Loose(t, k)
           start     == StartOf(t, n + 1)
           end       == EndOf(t, t.count)
           new_start == DataOffset(t, start, amt)
           len       == t.data_size - start
<1>1. SameBut(t, l) /\ Rec(l)
  BY LooseRead
<1> HIDE DEF l
<1>2. /\ StartOf(l, n + 1) = start /\ EndOf(l, l.count) = end
      /\ DataOffset(l, start, amt) = new_start /\ l.data_size - start = len
      /\ l.count = t.count /\ l.data_size = t.data_size
  BY <1>1, SameRead DEF SameBut, DataOffset
<1>3. MoveTail(l, n, amt) =
        IF n = t.count - 1 THEN l
        ELSE IF start <= end THEN CopyMove(l, start, end - start, new_start)
        ELSE IF amt > 0
             THEN CopyMove(CopyMove(l, 0, end, amt), start, len, new_start)
             ELSE CopyMove(CopyMove(l, start, len, new_start), 0, end, new_start + len)
  BY <1>2 DEF MoveTail
<1>4. MoveTail(t, n, amt) =
        IF n = t.count - 1 THEN t
        ELSE IF start <= end THEN CopyMove(t, start, end - start, new_start)
        ELSE IF amt > 0
             THEN CopyMove(CopyMove(t, 0, end, amt), start, len, new_start)
             ELSE CopyMove(CopyMove(t, start, len, new_start), 0, end, new_start + len)
  BY DEF MoveTail
<1> HIDE DEF start, end, new_start, len
<1>5. \A m : Rec(m) => \A a, b, c : /\ CopyMove(Loose(m, k), a, b, c) = Loose(CopyMove(m, a, b, c), k)
                                    /\ Rec(CopyMove(m, a, b, c))
  BY CopyMoveLoose
<1>6. /\ CopyMove(l, 0, end, amt) = Loose(CopyMove(t, 0, end, amt), k)
      /\ CopyMove(l, start, len, new_start) = Loose(CopyMove(t, start, len, new_start), k)
      /\ Rec(CopyMove(t, 0, end, amt)) /\ Rec(CopyMove(t, start, len, new_start))
  BY <1>5 DEF l
<1>7. /\ CopyMove(CopyMove(l, 0, end, amt), start, len, new_start)
           = Loose(CopyMove(CopyMove(t, 0, end, amt), start, len, new_start), k)
      /\ Rec(CopyMove(CopyMove(t, 0, end, amt), start, len, new_start))
  BY <1>5, <1>6
<1>8. /\ CopyMove(CopyMove(l, start, len, new_start), 0, end, new_start + len)
           = Loose(CopyMove(CopyMove(t, start, len, new_start), 0, end, new_start + len), k)
      /\ Rec(CopyMove(CopyMove(t, start, len, new_start), 0, end, new_start + len))
  BY <1>5, <1>6
<1>9. /\ CopyMove(l, start, end - start, new_start) = Loose(CopyMove(t, start, end - start, new_start), k)
      /\ Rec(CopyMove(t, start, end - start, new_start))
  BY <1>5 DEF l
<1> QED BY <1>3, <1>4, <1>7, <1>8, <1>9 DEF l

\* move_head()
LEMMA MoveHeadLoose ==
  ASSUME NEW t, Rec(t), NEW k, NEW n, NEW amt
  PROVE  MoveHead(Loose(t, k), n, amt) = Loose(MoveHead(t, n, amt), k) /\ Rec(MoveHead(t, n, amt))
<1> DEFINE l         == Loose(t, k)
           start     == StartOf(t, 0)
           end       == EndOf(t, n)
           new_start == DataOffset(t, start, -amt)
           len       == t.data_size - start
<1>1. SameBut(t, l) /\ Rec(l)
  BY LooseRead
<1> HIDE DEF l
<1>2. /\ StartOf(l, 0) = start /\ EndOf(l, n) = end
      /\ DataOffset(l, start, -amt) = new_start /\ l.data_size - start = len
      /\ l.count = t.count /\ l.data_size = t.data_size
  BY <1>1, SameRead DEF SameBut, DataOffset
<1>3. MoveHead(l, n, amt) =
        IF n = 0 THEN l
        ELSE IF start <= end THEN CopyMove(l, start, end - start, new_start)
        ELSE IF amt < 0
             THEN CopyMove(CopyMove(l, 0, end, -amt), start, len, new_start)
             ELSE CopyMove(CopyMove(l, start, len, new_start), 0, end, new_start + len)
  BY <1>2 DEF MoveHead
<1>4. MoveHead(t, n, amt) =
        IF n = 0 THEN t
        ELSE IF start <= end THEN CopyMove(t, start, end - start, new_start)
        ELSE IF amt < 0
             THEN CopyMove(CopyMove(t, 0, end, -amt), start, len, new_start)
             ELSE CopyMove(CopyMove(t, start, len, new_start), 0, end, new_start + len)
  BY DEF MoveHead
<1> DEFINE by == -amt
<1> HIDE DEF start, end, new_start, len, by
<1>5. \A m : Rec(m) => \A a, b, c : /\ CopyMove(Loose(m, k), a, b, c) = Loose(CopyMove(m, a, b, c), k)
                                    /\ Rec(CopyMove(m, a, b, c))
  BY CopyMoveLoose
<1>6. /\ CopyMove(l, 0, end, by) = Loose(CopyMove(t, 0, end, by), k)
      /\ CopyMove(l, start, len, new_start) = Loose(CopyMove(t, start, len, new_start), k)
      /\ Rec(CopyMove(t, 0, end, by)) /\ Rec(CopyMove(t, start, len, new_start))
  BY <1>5 DEF l
<1>7. /\ CopyMove(CopyMove(l, 0, end, by), start, len, new_start)
           = Loose(CopyMove(CopyMove(t, 0, end, by), start, len, new_start), k)
      /\ Rec(CopyMove(CopyMove(t, 0, end, by), start, len, new_start))
  BY <1>5, <1>6
<1>8. /\ CopyMove(CopyMove(l, start, len, new_start), 0, end, new_start + len)
           = Loose(CopyMove(CopyMove(t, start, len, new_start), 0, end, new_start + len), k)
      /\ Rec(CopyMove(CopyMove(t, start, len, new_start), 0, end, new_start + len))
  BY <1>5, <1>6
<1>9. /\ CopyMove(l, start, end - start, new_start) = Loose(CopyMove(t, start, end - start, new_start), k)
      /\ Rec(CopyMove(t, start, end - start, new_start))
  BY <1>5 DEF l
<1> QED BY <1>3, <1>4, <1>7, <1>8, <1>9 DEF l, by

\* adjust_tail() and adjust_head()
LEMMA AdjustLoose ==
  ASSUME NEW t, Rec(t), NEW k, NEW n, NEW amt
  PROVE  /\ AdjustTail(Loose(t, k), n, amt) = Loose(AdjustTail(t, n, amt), k)
         /\ AdjustHead(Loose(t, k), n, amt) = Loose(AdjustHead(t, n, amt), k)
         /\ Rec(AdjustTail(t, n, amt)) /\ Rec(AdjustHead(t, n, amt))
         /\ AdjustTail(t, n, amt).data_len = t.data_len
         /\ AdjustHead(t, n, amt).data_len = t.data_len
<1> DEFINE l == Loose(t, k)
<1>1. SameBut(t, l) /\ Rec(l)
  BY LooseRead
<1> DEFINE x == AdjustTail(t, n, amt).idx
           y == AdjustHead(t, n, amt).idx
<1>2. AdjustTail(t, n, amt) = [t EXCEPT !.idx = x] /\ AdjustHead(t, n, amt) = [t EXCEPT !.idx = y]
  BY DEF AdjustTail, AdjustHead, Rec
<1>3. AdjustTail(l, n, amt).idx = x /\ AdjustHead(l, n, amt).idx = y
  <2> HIDE DEF l
  <2> QED BY <1>1 DEF SameBut, AdjustTail, AdjustHead, Rec, DataOffset
<1>4. AdjustTail(l, n, amt) = [l EXCEPT !.idx = x] /\ AdjustHead(l, n, amt) = [l EXCEPT !.idx = y]
  <2> HIDE DEF l, x, y
  <2> QED BY <1>1, <1>3 DEF AdjustTail, AdjustHead, Rec
<1> HIDE DEF x, y
<1> QED BY <1>2, <1>4 DEF Loose, Rec

\* An item that has grown by amt, whatever it holds now, is the only one that
\* is another.
LEMMA Replaced ==
  ASSUME NEW l, WellFormed(l), Layout(l), NEW n \in 0..(l.count - 1), NEW amt \in Int,
         -amt <= GetSize(l, n), amt + l.data_len < l.data_size,
         NEW g, WellFormed(g), Layout(g), NEW s, NEW D, D = Stretched(l, n, amt),
         Shape(g, l, l.count, s, D), Around(l, g, s, n, amt)
  PROVE  /\ Items(g) = [Items(l) EXCEPT ![n + 1] = Item(g, n)]
         /\ Item(g, n) \in Seq(Byte) /\ Len(Item(g, n)) = GetSize(l, n) + amt
         /\ Distance(g, n) = Distance(l, n)
<1> DEFINE v == Item(g, n)
           q == [Items(l) EXCEPT ![n + 1] = v]
<1>1. /\ l.data_size \in Nat /\ l.count \in Nat /\ n \in Nat /\ n \in 0..l.count
      /\ n + 1 \in 0..l.count /\ l.data_len \in Nat
  BY LayoutFacts
<1>2. g.count = l.count /\ StartOf(g, 0) = s
  BY DEF Shape
<1>3. \A j \in 0..l.count :
        Distance(g, j) = IF j <= n THEN Distance(l, j) ELSE Distance(l, j) + amt
  BY DEF Shape, Stretched
<1>4. v \in Seq(Byte) /\ Len(v) = GetSize(l, n) + amt /\ Distance(g, n) = Distance(l, n)
  <2>1. n \in 0..(g.count - 1)
    BY <1>2
  <2>2. v \in Seq(Byte) /\ Len(v) = GetSize(g, n)
    BY <2>1, ItemBytes
  <2>3. GetSize(g, n) = Distance(g, n + 1) - Distance(g, n)
    BY <2>1, SizeDistance
  <2>4. GetSize(l, n) = Distance(l, n + 1) - Distance(l, n)
    BY SizeDistance
  <2>5. Distance(g, n) = Distance(l, n) /\ Distance(g, n + 1) = Distance(l, n + 1) + amt
    BY <1>1, <1>3
  <2>6. Distance(l, n) \in 0..l.data_len /\ Distance(l, n + 1) \in 0..l.data_len
    BY <1>1, LayoutElim
  <2> HIDE DEF v
  <2> QED BY <1>1, <2>2, <2>3, <2>4, <2>5, <2>6
<1>5. /\ Items(l) \in Seq(Seq(Byte)) /\ Len(Items(l)) = l.count
      /\ \A j \in 1..l.count : Items(l)[j] = Item(l, j - 1)
  BY ItemsType
<1>6. q \in Seq(Seq(Byte)) /\ Len(q) = l.count /\ q[n + 1] = v
      /\ \A j \in 1..l.count : j # n + 1 => q[j] = Items(l)[j]
  <2> DEFINE r == Items(l)
             S == Seq(Byte)
  <2>1. r \in Seq(S) /\ Len(r) = l.count /\ v \in S /\ n + 1 \in 1..l.count
    BY <1>1, <1>4, <1>5
  <2> HIDE DEF r, S, v
  <2>2. /\ [r EXCEPT ![n + 1] = v] \in Seq(S) /\ Len([r EXCEPT ![n + 1] = v]) = l.count
        /\ [r EXCEPT ![n + 1] = v][n + 1] = v
        /\ \A j \in 1..l.count : j # n + 1 => [r EXCEPT ![n + 1] = v][j] = r[j]
    BY <1>1, <2>1
  <2> QED BY <2>2 DEF r, S
<1> HIDE DEF q, v
<1>7. ASSUME NEW j \in 0..(l.count - 1), j # n
      PROVE  Item(g, j) = q[j + 1]
  <2>1. /\ j \in 0..(g.count - 1) /\ j \in 0..l.count /\ j + 1 \in 0..l.count
        /\ j + 1 \in 1..l.count /\ (j + 1) - 1 = j /\ j + 1 # n + 1
    BY <1>1, <1>2, <1>7
  <2>2. Distance(l, j) \in Int /\ Distance(l, j + 1) \in Int
    <3>1. Distance(l, j) \in 0..l.data_len /\ Distance(l, j + 1) \in 0..l.data_len
      BY <2>1, LayoutElim
    <3> QED BY <3>1
  <2>3. CASE j < n
    <3>1. Distance(g, j) = Distance(l, j) + 0 /\ Distance(g, j + 1) = Distance(l, j + 1) + 0
      <4>1. j <= n /\ j + 1 <= n
        BY <1>1, <2>3
      <4> QED BY <1>3, <2>1, <2>2, <4>1
    <3>2. ASSUME NEW k \in Distance(l, j)..(Distance(l, j + 1) - 1)
          PROVE  At(g, StartOf(g, 0), k + 0) = At(l, StartOf(l, 0), k)
      <4>1. k \in 0..(l.data_len - 1) /\ k < Distance(l, n)
        BY <1>1, <2>3, Within
      <4>2. k + 0 = k
        BY <4>1, <1>1
      <4> QED BY <1>2, <4>1, <4>2 DEF Around
    <3>3. Item(g, j) = Item(l, j)
      BY <2>1, <3>1, <3>2, SameItem
    <3> QED BY <1>5, <1>6, <2>1, <3>3
  <2>4. CASE n < j
    <3>1. Distance(g, j) = Distance(l, j) + amt /\ Distance(g, j + 1) = Distance(l, j + 1) + amt
      <4>1. ~ (j <= n) /\ ~ (j + 1 <= n)
        BY <1>1, <2>4
      <4> QED BY <1>3, <2>1, <4>1
    <3>2. ASSUME NEW k \in Distance(l, j)..(Distance(l, j + 1) - 1)
          PROVE  At(g, StartOf(g, 0), k + amt) = At(l, StartOf(l, 0), k)
      <4>1. n + 1 <= j
        BY <1>1, <2>4
      <4>2. k \in 0..(l.data_len - 1) /\ Distance(l, n + 1) <= k
        BY <1>1, <4>1, Within
      <4>3. k >= Distance(l, n + 1)
        <5>1. Distance(l, n + 1) \in 0..l.data_len
          BY <1>1, LayoutElim
        <5> QED BY <1>1, <4>2, <5>1
      <4> QED BY <1>2, <4>2, <4>3 DEF Around
    <3>3. Item(g, j) = Item(l, j)
      BY <2>1, <3>1, <3>2, SameItem
    <3> QED BY <1>5, <1>6, <2>1, <3>3
  <2>5. j < n \/ n < j
    BY <1>1, <1>7
  <2> QED BY <2>3, <2>4, <2>5
<1>8. ASSUME NEW j \in 0..(g.count - 1) PROVE Item(g, j) = q[j + 1]
  BY <1>2, <1>6, <1>7 DEF v
<1>9. Items(g) = q
  BY <1>2, <1>6, <1>8, ItemsAre
<1> QED BY <1>4, <1>9 DEF q, v

-----------------------------------------------------------------------------
(* Writing into an item. *)

\* e with v written over what follows its first o bytes.
Patch(e, o, v) ==
  [k \in 1..Len(e) |-> IF o < k /\ k <= o + Len(v) THEN v[k - o] ELSE e[k]]

\* It is a string as long as e.
LEMMA PatchType ==
  ASSUME NEW e \in Seq(Byte), NEW v \in Seq(Byte), NEW o \in Nat
  PROVE  /\ Patch(e, o, v) \in Seq(Byte) /\ Len(Patch(e, o, v)) = Len(e)
         /\ \A k \in 1..Len(e) :
              Patch(e, o, v)[k] = IF o < k /\ k <= o + Len(v) THEN v[k - o] ELSE e[k]
<1> DEFINE p == Patch(e, o, v)
<1>1. \A k \in 1..Len(e) : p[k] = IF o < k /\ k <= o + Len(v) THEN v[k - o] ELSE e[k]
  BY DEF Patch
<1>2. ASSUME NEW k \in 1..Len(e) PROVE p[k] \in Byte
  <2>1. CASE o < k /\ k <= o + Len(v)
    <3>1. k - o \in 1..Len(v)
      BY <2>1
    <3> HIDE DEF p
    <3> QED BY <1>1, <2>1, <3>1
  <2>2. CASE ~ (o < k /\ k <= o + Len(v))
    <3> HIDE DEF p
    <3> QED BY <1>1, <2>2
  <2> QED BY <2>1, <2>2
<1>3. p \in [1..Len(e) -> Byte]
  BY <1>2 DEF Patch
<1> HIDE DEF p
<1> QED BY <1>1, <1>3 DEF p

\* copy_into() at the oth byte of item n.
LEMMA PatchLayout ==
  ASSUME NEW l, WellFormed(l), Layout(l), NEW n \in 0..(l.count - 1), NEW o \in Nat,
         NEW v \in Seq(Byte), o + Len(v) <= GetSize(l, n)
  PROVE  LET g == CopyInto(l, v, DataOffset(l, StartOf(l, n), o))
         IN  /\ WellFormed(g) /\ SameIndex(l, g) /\ Layout(g)
             /\ Items(g) = [Items(l) EXCEPT ![n + 1] = Patch(Item(l, n), o, v)]
<1> DEFINE start == DataOffset(l, StartOf(l, n), o)
           g     == CopyInto(l, v, start)
           d     == l.data_size
           s     == StartOf(l, 0)
           b     == Distance(l, n)
           size  == GetSize(l, n)
           a     == b + o
           e     == Item(l, n)
           p     == Patch(e, o, v)
           zero  == 0
<1>1. /\ d \in Nat /\ d > 0 /\ l.count \in Nat /\ n \in Nat /\ n \in 0..l.count
      /\ n + 1 \in 0..l.count /\ l.data_len \in Nat /\ l.data_len < d /\ Len(v) \in Nat
      /\ s \in 0..(d - 1)
  BY LayoutFacts
<1>2. b \in Nat /\ size \in Nat /\ b + size = Distance(l, n + 1) /\ b + size <= l.data_len
  <2>1. b \in 0..l.data_len /\ Distance(l, n + 1) \in 0..l.data_len
    BY <1>1, LayoutElim
  <2>2. size = Distance(l, n + 1) - b /\ size \in 0..l.data_len
    BY SizeDistance
  <2> HIDE DEF b, size
  <2> QED BY <1>1, <2>1, <2>2
<1>3. a \in 0..(d - 1) /\ a + Len(v) <= b + size /\ a + Len(v) <= d
  <2> HIDE DEF b, size, d
  <2> QED BY <1>1, <1>2 DEF size
<1>4. start = (s + a) % d
  <2>1. StartOf(l, n) = (s + b) % d
    BY <1>1, LayoutElim
  <2>2. (((s + b) % d) + o) % d = (s + (b + o)) % d
    <3>1. b \in (1 - d)..(d - 1) /\ o \in Int /\ 0 <= b + o /\ b + o < d
      <4> HIDE DEF b, d
      <4> QED BY <1>1, <1>2, <1>3
    <3> HIDE DEF b, d, s
    <3> QED BY <1>1, <3>1, ModAdd
  <2> QED BY <2>1, <2>2 DEF DataOffset
<1>5. WellFormed(g) /\ SameIndex(l, g)
  <2>1. start \in Int
    <3> HIDE DEF a, s, d, start
    <3> QED BY <1>1, <1>3, <1>4, ModRange
  <2> HIDE DEF start
  <2> QED BY <2>1, CopyIntoIndex
<1>6. Layout(g)
  <2> HIDE DEF g
  <2> QED BY <1>5, SameIndexLayout
<1>7. \A k \in 0..(d - 1) :
        At(g, s, k) = IF a <= k /\ k < a + Len(v) THEN v[(k - a) + 1] ELSE At(l, s, k)
  <2> TAKE k \in 0..(d - 1)
  <2>1. At(CopyInto(l, v, (s + a) % d), s, k)
          = IF a <= k /\ k < a + Len(v) THEN v[(k - a) + 1] ELSE At(l, s, k)
    <3> HIDE DEF a, s
    <3> QED BY <1>1, <1>3, WrittenBytes
  <2> HIDE DEF a, s, start
  <2> QED BY <1>4, <2>1
<1> HIDE DEF g, start
<1>8. Around(l, g, s, n, zero)
  <2> SUFFICES ASSUME NEW k \in 0..(l.data_len - 1)
               PROVE  /\ k < b => At(g, s, k) = At(l, s, k)
                      /\ k >= Distance(l, n + 1) => At(g, s, k + zero) = At(l, s, k)
    BY DEF Around
  <2>1. k \in 0..(d - 1) /\ k + zero = k
    BY <1>1
  <2>2. k < b => ~ (a <= k /\ k < a + Len(v))
    <3> HIDE DEF b
    <3> QED BY <1>1, <1>2
  <2>3. k >= Distance(l, n + 1) => ~ (a <= k /\ k < a + Len(v))
    <3> HIDE DEF b, a, size
    <3> QED BY <1>1, <1>2, <1>3
  <2> HIDE DEF a, b, zero, s
  <2> QED BY <1>7, <2>1, <2>2, <2>3
<1>9. Shape(g, l, l.count, s, Stretched(l, n, zero))
  <2>1. /\ g.index_size = l.index_size /\ g.data_size = l.data_size /\ g.count = l.count
        /\ \A j : StartOf(g, j) = StartOf(l, j) /\ Distance(g, j) = Distance(l, j)
    BY <1>5 DEF SameIndex, StartOf, Distance, IndexRef
  <2>2. \A j \in 0..l.count : Stretched(l, n, zero)[j] = Distance(l, j)
    <3> TAKE j \in 0..l.count
    <3>1. Distance(l, j) \in 0..l.data_len
      BY LayoutElim
    <3> QED BY <3>1, <1>1 DEF Stretched
  <2> QED BY <2>1, <2>2 DEF Shape
<1>10. /\ Items(g) = [Items(l) EXCEPT ![n + 1] = Item(g, n)]
       /\ Item(g, n) \in Seq(Byte) /\ Len(Item(g, n)) = size
  <2>1. zero \in Int /\ -zero <= GetSize(l, n) /\ zero + l.data_len < l.data_size
        /\ size + zero = size
    BY <1>1, <1>2
  <2> HIDE DEF zero, s, size
  <2>2. /\ Items(g) = [Items(l) EXCEPT ![n + 1] = Item(g, n)]
        /\ Item(g, n) \in Seq(Byte) /\ Len(Item(g, n)) = GetSize(l, n) + zero
    BY <1>5, <1>6, <1>8, <1>9, <2>1, Replaced
  <2> QED BY <2>1, <2>2 DEF size
<1>11. /\ p \in Seq(Byte) /\ Len(p) = size
       /\ \A k \in 1..size : p[k] = IF o < k /\ k <= o + Len(v) THEN v[k - o] ELSE e[k]
  <2>1. e \in Seq(Byte) /\ Len(e) = size
    BY ItemBytes
  <2> HIDE DEF e, size
  <2> QED BY <2>1, PatchType
<1>12. Item(g, n) = p
  <2>1. n \in 0..(g.count - 1) /\ g.count = l.count /\ StartOf(g, 0) = s
        /\ Distance(g, n) = b /\ Distance(g, n + 1) = b + size
    <3>1. g.count = l.count /\ \A j : StartOf(g, j) = StartOf(l, j) /\ Distance(g, j) = Distance(l, j)
      BY <1>5 DEF SameIndex, StartOf, Distance, IndexRef
    <3>2. Distance(g, n + 1) = Distance(l, n + 1)
      BY <3>1
    <3> QED BY <1>2, <3>1, <3>2
  <2>2. ASSUME NEW k \in 0..(size - 1)
        PROVE  At(g, StartOf(g, 0), b + k) = p[k + 1]
    <3>1. b + k \in 0..(d - 1) /\ k + 1 \in 1..size /\ (k + 1) - 1 = k /\ k \in Int
      <4> HIDE DEF b, size, d
      <4> QED BY <1>1, <1>2
    <3>2. e[k + 1] = At(l, s, b + k)
      <4>1. e[k + 1] = At(l, s, b + ((k + 1) - 1))
        <5> HIDE DEF e, b, s
        <5> QED BY <3>1, ItemBytes DEF e, b, s
      <4> HIDE DEF e, b, s
      <4> QED BY <3>1, <4>1
    <3>3. At(g, s, b + k) = IF a <= b + k /\ b + k < a + Len(v) THEN v[((b + k) - a) + 1]
                            ELSE At(l, s, b + k)
      <4> HIDE DEF a, b
      <4> QED BY <1>7, <3>1
    <3>4. /\ (a <= b + k /\ b + k < a + Len(v)) <=> (o < k + 1 /\ k + 1 <= o + Len(v))
          /\ ((b + k) - a) + 1 = (k + 1) - o
      <4> HIDE DEF b, size
      <4> QED BY <1>1, <1>2, <3>1
    <3> HIDE DEF a, b, e, p, s
    <3> QED BY <1>11, <2>1, <3>1, <3>2, <3>3, <3>4
  <2> HIDE DEF p, b, size
  <2> QED BY <1>5, <1>6, <1>11, <2>1, <2>2, NewItem
<1> QED BY <1>5, <1>6, <1>10, <1>12 DEF g, start

\* The same of a list that counts more bytes.
LEMMA PatchRings ==
  ASSUME NEW l, Rings(l), NEW n \in 0..(l.count - 1), NEW o \in Nat,
         NEW v \in Seq(Byte), o + Len(v) <= GetSize(l, n)
  PROVE  LET g == CopyInto(l, v, DataOffset(l, StartOf(l, n), o))
         IN  /\ Rings(g) /\ SameIndex(l, g)
             /\ Items(g) = [Items(l) EXCEPT ![n + 1] = Patch(Item(l, n), o, v)]
<1>1. PICK t, k : /\ WellFormed(t) /\ Layout(t) /\ k \in Nat /\ l = Loose(t, k)
                  /\ t.data_len + k < t.data_size
                  /\ SameBut(t, l) /\ l.data_len = t.data_len + k /\ Items(l) = Items(t)
  BY RingsLoose
<1> DEFINE start == DataOffset(l, StartOf(l, n), o)
           g     == CopyInto(l, v, start)
           h     == CopyInto(t, v, start)
           p     == Patch(Item(l, n), o, v)
<1>2. /\ StartOf(l, n) = StartOf(t, n) /\ GetSize(l, n) = GetSize(t, n)
      /\ Item(l, n) = Item(t, n)
  BY <1>1, SameRead
<1>3. n \in 0..(t.count - 1) /\ start = DataOffset(t, StartOf(t, n), o)
  BY <1>1, <1>2 DEF SameBut, DataOffset
<1>4. /\ WellFormed(h) /\ SameIndex(t, h) /\ Layout(h)
      /\ Items(h) = [Items(t) EXCEPT ![n + 1] = p]
  BY <1>1, <1>2, <1>3, PatchLayout
<1>5. g = Loose(h, k)
  <2>1. Rec(t)
    BY <1>1, WellFormedRec
  <2> HIDE DEF start
  <2> QED BY <1>1, <2>1, CopyIntoLoose
<1> HIDE DEF h, p
<1>6. h.data_len = t.data_len /\ h.data_size = t.data_size
  BY <1>4 DEF SameIndex
<1>7. Rings(g) /\ Items(g) = Items(h)
  <2> HIDE DEF g
  <2> QED BY <1>1, <1>4, <1>5, <1>6, LooseRings
<1>8. SameIndex(l, g)
  <2> HIDE DEF start
  <2> QED BY <1>1 DEF SameIndex, CopyInto, Loose, WellFormed
<1> QED BY <1>1, <1>4, <1>7, <1>8 DEF g, p

\* The two ways to change data_len commute.
LEMMA LooseTwice ==
  ASSUME NEW t, Rec(t), t.data_len \in Int, NEW k \in Int, NEW amt \in Int
  PROVE  Loose(Loose(t, k), amt) = Loose(Loose(t, amt), k)
<1> DEFINE a == t.data_len
<1>1. a \in Int
  OBVIOUS
<1>2. /\ Loose(Loose(t, k), amt) = [t EXCEPT !.data_len = (a + k) + amt]
      /\ Loose(Loose(t, amt), k) = [t EXCEPT !.data_len = (a + amt) + k]
  BY DEF Loose, Rec
<1> HIDE DEF a
<1>3. (a + k) + amt = (a + amt) + k
  BY <1>1
<1> QED BY <1>2, <1>3

\* lset() does not look at data_len but to add to it.
LEMMA LSetLoose ==
  ASSUME NEW t, Rec(t), t.data_len \in Int, NEW k \in Int, NEW n, NEW v,
         Len(v) - GetSize(t, n) \in Int
  PROVE  LSetItem(Loose(t, k), n, v) = Loose(LSetItem(t, n, v), k)
<1> DEFINE l   == Loose(t, k)
           amt == Len(v) - GetSize(t, n)
           Moved(m) == IF amt = 0 THEN m
                       ELSE IF n < t.count \div 2 THEN AdjustHead(MoveHead(m, n, amt), n, amt)
                       ELSE AdjustTail(MoveTail(m, n, amt), n, amt)
           Sized(m) == Loose(Moved(m), amt)
           Set(m)   == CopyInto(Sized(m), v, StartOf(Sized(m), n))
<1>1. SameBut(t, l) /\ Rec(l)
  BY LooseRead
<1>2. GetSize(l, n) = GetSize(t, n) /\ l.count = t.count
  <2> HIDE DEF l
  <2> QED BY <1>1, SameRead DEF SameBut
<1>3. LSetItem(l, n, v) = Set(l) /\ LSetItem(t, n, v) = Set(t)
  <2> HIDE DEF l
  <2> QED BY <1>2 DEF LSetItem, Loose
<1>4. Moved(l) = Loose(Moved(t), k) /\ Rec(Moved(t)) /\ Moved(t).data_len = t.data_len
  <2> HIDE DEF amt
  <2>1. /\ MoveHead(l, n, amt) = Loose(MoveHead(t, n, amt), k) /\ Rec(MoveHead(t, n, amt))
    BY MoveHeadLoose
  <2>2. /\ MoveTail(l, n, amt) = Loose(MoveTail(t, n, amt), k) /\ Rec(MoveTail(t, n, amt))
    BY MoveTailLoose
  <2> DEFINE x == MoveHead(t, n, amt)
             y == MoveTail(t, n, amt)
  <2>3. x.data_len = t.data_len /\ y.data_len = t.data_len
    <3>1. \A m, a, b, c : CopyMove(m, a, b, c).data_len = m.data_len
      BY DEF CopyMove
    <3> QED BY <3>1 DEF MoveHead, MoveTail
  <2> HIDE DEF x, y, l
  <2>4. \A m : Rec(m) => \A j, by :
           /\ AdjustTail(Loose(m, k), j, by) = Loose(AdjustTail(m, j, by), k)
           /\ AdjustHead(Loose(m, k), j, by) = Loose(AdjustHead(m, j, by), k)
           /\ Rec(AdjustTail(m, j, by)) /\ Rec(AdjustHead(m, j, by))
           /\ AdjustTail(m, j, by).data_len = m.data_len
           /\ AdjustHead(m, j, by).data_len = m.data_len
    BY AdjustLoose
  <2>5. /\ AdjustHead(MoveHead(l, n, amt), n, amt) = Loose(AdjustHead(x, n, amt), k)
        /\ AdjustTail(MoveTail(l, n, amt), n, amt) = Loose(AdjustTail(y, n, amt), k)
        /\ Rec(AdjustHead(x, n, amt)) /\ Rec(AdjustTail(y, n, amt))
        /\ AdjustHead(x, n, amt).data_len = t.data_len
        /\ AdjustTail(y, n, amt).data_len = t.data_len
    BY <2>1, <2>2, <2>3, <2>4 DEF x, y
  <2> QED BY <2>5 DEF x, y, l
<1> HIDE DEF l, Moved, amt
<1>5. Sized(l) = Loose(Sized(t), k) /\ Rec(Sized(t))
  <2> DEFINE m == Moved(t)
  <2>1. m.data_len \in Int /\ amt \in Int /\ Rec(m)
    BY <1>4 DEF amt
  <2> HIDE DEF m
  <2>2. Loose(Loose(m, k), amt) = Loose(Loose(m, amt), k)
    BY <2>1, LooseTwice
  <2>3. Rec(Loose(m, amt))
    BY <2>1, LooseRead
  <2> QED BY <1>4, <2>2, <2>3 DEF m
<1> DEFINE z == Sized(t)
<1> HIDE DEF Sized
<1>6. StartOf(Sized(l), n) = StartOf(z, n)
  <2>1. SameBut(z, Loose(z, k))
    BY <1>5, LooseRead
  <2> HIDE DEF z
  <2>2. StartOf(Loose(z, k), n) = StartOf(z, n)
    BY <2>1, SameRead
  <2> QED BY <1>5, <2>2 DEF z
<1>7. CopyInto(Loose(z, k), v, StartOf(z, n)) = Loose(CopyInto(z, v, StartOf(z, n)), k)
  BY <1>5, CopyIntoLoose
<1> QED BY <1>3, <1>5, <1>6, <1>7 DEF l

\* lset()
LEMMA LSetRings ==
  ASSUME NEW l, Rings(l), NEW n \in 0..(l.count - 1), NEW v \in Seq(Byte),
         LET amt == Len(v) - GetSize(l, n) IN ~ (amt > 0 /\ DataFull(l, amt))
  PROVE  /\ Rings(LSetItem(l, n, v))
         /\ Items(LSetItem(l, n, v)) = [Items(l) EXCEPT ![n + 1] = v]
<1>1. PICK t, k : /\ WellFormed(t) /\ Layout(t) /\ k \in Nat /\ l = Loose(t, k)
                  /\ t.data_len + k < t.data_size
                  /\ SameBut(t, l) /\ l.data_len = t.data_len + k /\ Items(l) = Items(t)
  BY RingsLoose
<1> DEFINE h   == LSetItem(t, n, v)
           amt == Len(v) - GetSize(t, n)
<1>2. /\ GetSize(l, n) = GetSize(t, n) /\ n \in 0..(t.count - 1)
      /\ l.data_size = t.data_size
  BY <1>1, SameRead DEF SameBut
<1>3. t.data_len \in Nat /\ t.data_size \in Nat /\ Len(v) \in Nat /\ GetSize(t, n) \in Nat
  BY <1>1, <1>2, LayoutFacts, ItemBytes
<1>4. amt \in Int /\ ~ (amt > 0 /\ DataFull(l, amt))
  BY <1>2, <1>3
<1>5. ~ (amt > 0 /\ DataFull(t, amt)) /\ t.data_len + amt + k < t.data_size
  <2> HIDE DEF amt
  <2>1. DataFull(l, amt) <=> amt + (t.data_len + k) > t.data_size - 1
    BY <1>1, <1>2 DEF DataFull
  <2>2. DataFull(t, amt) <=> amt + t.data_len > t.data_size - 1
    BY DEF DataFull
  <2> QED BY <1>1, <1>3, <1>4, <2>1, <2>2
<1>6. /\ WellFormed(h) /\ Layout(h)
      /\ Shape(h, t, t.count, SetStart(t, n, amt), Stretched(t, n, amt))
  <2> HIDE DEF amt
  <2>1. amt = Len(v) - GetSize(t, n)
    BY DEF amt
  <2> QED BY <1>1, <1>2, <1>5, <2>1, LSetLayout
<1>7. Items(h) = [Items(t) EXCEPT ![n + 1] = v]
  BY <1>1, <1>2, <1>5, LSetItems
<1>8. h.data_len = t.data_len + amt /\ h.data_size = t.data_size
  <2>1. h.data_size = t.data_size /\ h.count = t.count
    BY <1>6 DEF Shape
  <2>2. Distance(h, h.count) = h.data_len
    <3> HIDE DEF h
    <3> QED BY <1>6, LayoutElim
  <2>3. Distance(h, t.count) = Stretched(t, n, amt)[t.count]
    <3>1. t.count \in 0..t.count
      BY <1>1, LayoutFacts
    <3> QED BY <1>6, <3>1 DEF Shape
  <2>4. Stretched(t, n, amt)[t.count] = t.data_len + amt
    <3>1. t.count \in 0..t.count /\ ~ (t.count <= n)
      BY <1>1, <1>2, LayoutFacts
    <3>2. Distance(t, t.count) = t.data_len
      BY <1>1, LayoutElim
    <3> QED BY <3>1, <3>2 DEF Stretched
  <2> QED BY <2>1, <2>2, <2>3, <2>4
<1>9. LSetItem(l, n, v) = Loose(h, k)
  <2>1. Rec(t) /\ t.data_len \in Int /\ k \in Int /\ Len(v) - GetSize(t, n) \in Int
    BY <1>1, <1>3, <1>4, WellFormedRec
  <2> QED BY <1>1, <2>1, LSetLoose
<1> HIDE DEF h, amt
<1>10. h.data_len + k < h.data_size
  BY <1>1, <1>3, <1>4, <1>5, <1>8
<1>11. Rings(Loose(h, k)) /\ Items(Loose(h, k)) = Items(h)
  BY <1>1, <1>6, <1>10, LooseRings
<1> QED BY <1>1, <1>7, <1>9, <1>11

\* The items from c on cut off, and some or all of their bytes left counted.
LEMMA CutRings ==
  ASSUME NEW l, Rings(l), NEW c \in 0..l.count, NEW d \in Nat,
         Distance(l, c) <= d, d < l.data_size
  PROVE  LET g == [l EXCEPT !.count = c, !.data_len = d]
         IN  Rings(g) /\ Items(g) = SubSeq(Items(l), 1, c)
<1> DEFINE g    == [l EXCEPT !.count = c, !.data_len = d]
           t    == Tight(l)
           zero == 0
           e    == Distance(t, zero + c) - Distance(t, zero)
           r    == Rebuilt(t, IndexRef(t, zero), c, e, t.idx)
<1>1. WellFormed(l) /\ l.data_len \in Nat /\ l.data_size \in Nat /\ l.count \in Nat
  BY HeaderType DEF Rings
<1>2. Distance(l, l.count) \in Nat
  <2>1. Distance(l, l.count) \in 0..(l.data_size - 1)
    BY <1>1, DistanceType
  <2> QED BY <1>1, <2>1
<1>3. WellFormed(t) /\ SameBut(l, t) /\ Layout(t)
  BY <1>1, <1>2, Recounted DEF Tight, Rings
<1>4. Rec(l) /\ Rec(t)
  BY <1>1, <1>3, WellFormedRec
<1> HIDE DEF t
<1>5. t.count = l.count /\ zero \in 0..t.count /\ c \in 0..(t.count - zero) /\ zero + c = c
  BY <1>1, <1>3 DEF SameBut
<1> HIDE DEF zero
<1>6. /\ WellFormed(r) /\ Layout(r)
      /\ Shape(r, t, c, StartOf(t, zero), Sliced(t, zero, c))
  BY <1>3, <1>5, SliceLayout
<1>7. Items(r) = SubSeq(Items(t), zero + 1, zero + c)
  <2>1. r.blob = t.blob
    BY <1>4 DEF Rebuilt, Rec
  <2> HIDE DEF r
  <2> QED BY <1>3, <1>5, <1>6, <2>1, SliceItems
<1>8. e = Distance(l, c) /\ e \in Nat
  <2>1. Distance(t, zero + c) = Distance(l, c)
    BY <1>3, <1>5, SameRead
  <2>2. Distance(t, zero) = 0
    BY <1>3, LayoutElim DEF zero
  <2>3. Distance(l, c) \in 0..(l.data_size - 1)
    BY <1>1, DistanceType
  <2> QED BY <1>1, <2>1, <2>2, <2>3
<1>9. IndexRef(t, zero) = l.first
  BY <1>3, IndexRefZero DEF zero, SameBut
<1> HIDE DEF e
<1> DEFINE k == d - e
<1>10. k \in Nat /\ e + k = d
  BY <1>8
<1> HIDE DEF k
<1>11. g = Loose(r, k) /\ r.data_len = e /\ r.data_size = l.data_size
  <2> DEFINE x == Distance(l, l.count)
  <2>1. r = [t EXCEPT !.first = l.first, !.count = c, !.data_len = e, !.idx = l.idx]
    BY <1>3, <1>9 DEF Rebuilt, SameBut
  <2>2. t = [l EXCEPT !.data_len = x]
    BY DEF Tight, t
  <2> HIDE DEF x, r
  <2>3. r = [l EXCEPT !.count = c, !.data_len = e]
    BY <1>4, <2>1, <2>2 DEF Rec
  <2>4. Loose(r, k) = [l EXCEPT !.count = c, !.data_len = d]
    BY <1>4, <1>10, <2>3 DEF Loose, Rec
  <2>5. r.data_len = e /\ r.data_size = l.data_size
    BY <1>4, <2>3 DEF Rec
  <2> QED BY <2>4, <2>5
<1> HIDE DEF r, g
<1>12. Rings(g) /\ Items(g) = Items(r)
  BY <1>6, <1>10, <1>11, LooseRings
<1>13. Items(t) = Items(l) /\ zero + 1 = 1
  BY <1>3, SameRead DEF zero
<1> QED BY <1>5, <1>7, <1>12, <1>13 DEF g

\* lrem() of an inner item does not look at data_len.
LEMMA LRemLoose ==
  ASSUME NEW t, Rec(t), t.data_len \in Int, NEW k \in Int, NEW n \in 1..(t.count - 2),
         t.count \in Nat, GetSize(t, n) \in Nat
  PROVE  /\ LRemItem(Loose(t, k), n) = Loose(LRemItem(t, n), k)
         /\ LRemItem(t, n).data_len = t.data_len - GetSize(t, n)
         /\ LRemItem(t, n).data_size = t.data_size
<1> DEFINE l    == Loose(t, k)
           size == GetSize(t, n)
           neg  == -size
           Moved(m) == IF size > 0 THEN MoveTail(m, n, neg) ELSE m
           x    == [i \in DOMAIN t.idx |->
                      LET j == (i - t.first) % t.index_size
                      IN  IF n + 1 <= j /\ j < t.count
                          THEN DataOffset(t, t.idx[IndexRef(t, j + 1)], neg) ELSE t.idx[i]]
           Closing(m) == [m EXCEPT !.idx = x, !.count = @ - 1, !.data_len = @ - size]
<1>1. SameBut(t, l) /\ Rec(l)
  BY LooseRead
<1>2. /\ ~ (n + 1 = t.count) /\ ~ (n = 0)
      /\ LRemItem(t, n) = Closing(Moved(t))
  BY DEF LRemItem
<1>3. LRemItem(l, n) = Closing(Moved(l))
  <2>1. GetSize(l, n) = size /\ l.count = t.count
    <3> HIDE DEF l
    <3> QED BY <1>1, SameRead DEF SameBut
  <2>2. \A j : IndexRef(l, j) = IndexRef(t, j)
    <3> HIDE DEF l
    <3> QED BY <1>1, SameRead
  <2>3. l.idx = t.idx /\ l.first = t.first /\ l.index_size = t.index_size /\ l.data_size = t.data_size
    BY <1>1 DEF SameBut
  <2> DEFINE y == [i \in DOMAIN l.idx |->
                     LET j == (i - l.first) % l.index_size
                     IN  IF n + 1 <= j /\ j < l.count
                         THEN DataOffset(l, l.idx[IndexRef(l, j + 1)], -GetSize(l, n))
                         ELSE l.idx[i]]
  <2>4. LRemItem(l, n) = [(IF GetSize(l, n) > 0 THEN MoveTail(l, n, -GetSize(l, n)) ELSE l)
                            EXCEPT !.idx = y, !.count = @ - 1, !.data_len = @ - GetSize(l, n)]
    <3> HIDE DEF l
    <3> QED BY <1>2, <2>1 DEF LRemItem
  <2>5. y = x
    <3> HIDE DEF l, size
    <3>1. y = [i \in DOMAIN t.idx |->
                     LET j == (i - t.first) % t.index_size
                     IN  IF n + 1 <= j /\ j < t.count
                         THEN DataOffset(l, t.idx[IndexRef(l, j + 1)], neg)
                         ELSE t.idx[i]]
      BY <2>1, <2>3
    <3>2. \A j : DataOffset(l, t.idx[IndexRef(l, j + 1)], neg)
                   = DataOffset(t, t.idx[IndexRef(t, j + 1)], neg)
      BY <2>2, <2>3 DEF DataOffset
    <3> QED BY <3>1, <3>2
  <2> HIDE DEF l, x, y, size
  <2> QED BY <2>1, <2>4, <2>5
<1> DEFINE m == Moved(t)
<1>4. Moved(l) = Loose(m, k) /\ Rec(m) /\ m.data_len = t.data_len /\ m.data_size = t.data_size
  <2> HIDE DEF neg
  <2>1. MoveTail(l, n, neg) = Loose(MoveTail(t, n, neg), k) /\ Rec(MoveTail(t, n, neg))
    BY MoveTailLoose
  <2>2. MoveTail(t, n, neg).data_len = t.data_len /\ MoveTail(t, n, neg).data_size = t.data_size
    <3>1. \A y, a, b, c : CopyMove(y, a, b, c).data_len = y.data_len /\ CopyMove(y, a, b, c).data_size = y.data_size
      BY DEF CopyMove
    <3> QED BY <3>1 DEF MoveTail
  <2> HIDE DEF size
  <2> QED BY <2>1, <2>2
<1> HIDE DEF Moved, x, l
<1>5. Closing(Loose(m, k)) = Loose(Closing(m), k)
  <2> DEFINE a == m.data_len
             c == m.count
  <2>1. a \in Int /\ size \in Int
    BY <1>4
  <2>2. (a + k) - size = (a - size) + k
    <3> HIDE DEF a, size
    <3> QED BY <2>1
  <2> HIDE DEF size, m
  <2>3. /\ Closing(Loose(m, k)) = [m EXCEPT !.idx = x, !.count = c - 1, !.data_len = (a + k) - size]
        /\ Loose(Closing(m), k) = [m EXCEPT !.idx = x, !.count = c - 1, !.data_len = (a - size) + k]
    BY <1>4 DEF Loose, Rec
  <2> QED BY <2>2, <2>3
<1>6. Closing(m).data_len = t.data_len - size /\ Closing(m).data_size = t.data_size
  <2> HIDE DEF size, m
  <2> QED BY <1>4 DEF Rec
<1> QED BY <1>2, <1>3, <1>4, <1>5, <1>6 DEF l

\* lrem() of an item that is not the first.
LEMMA LRemRings ==
  ASSUME NEW l, Rings(l), NEW n \in 1..(l.count - 1)
  PROVE  Rings(LRemItem(l, n)) /\ Items(LRemItem(l, n)) = RemoveAt(Items(l), n + 1)
<1>1. PICK t, k : /\ WellFormed(t) /\ Layout(t) /\ k \in Nat /\ l = Loose(t, k)
                  /\ t.data_len + k < t.data_size
                  /\ SameBut(t, l) /\ l.data_len = t.data_len + k /\ Items(l) = Items(t)
  BY RingsLoose
<1>2. /\ t.count = l.count /\ t.data_size = l.data_size /\ GetSize(t, n) = GetSize(l, n)
      /\ l.count \in Nat /\ t.data_len \in Nat /\ n \in Nat
  <2>1. t.count = l.count /\ t.data_size = l.data_size
    BY <1>1 DEF SameBut
  <2>2. GetSize(t, n) = GetSize(l, n)
    BY <1>1, SameRead
  <2>3. t.count \in Nat /\ t.data_len \in Nat
    BY <1>1, LayoutFacts
  <2> QED BY <2>1, <2>2, <2>3
<1>3. GetSize(t, n) = Distance(t, n + 1) - Distance(t, n) /\ GetSize(t, n) \in 0..t.data_len
  <2>1. n \in 0..(t.count - 1)
    BY <1>2
  <2> QED BY <1>1, <2>1, SizeDistance
<1>4. CASE n + 1 # l.count
  <2> DEFINE h == LRemItem(t, n)
  <2>1. n \in 1..(t.count - 2)
    BY <1>2, <1>4
  <2>2. WellFormed(h) /\ Layout(h) /\ Items(h) = RemoveAt(Items(t), n + 1)
    BY <1>1, <2>1, LRemInner, LRemInnerItems
  <2>3. Rec(t) /\ t.data_len \in Int /\ k \in Int /\ t.count \in Nat /\ GetSize(t, n) \in Nat
    BY <1>1, <1>2, <1>3, WellFormedRec
  <2>4. /\ LRemItem(l, n) = Loose(h, k)
        /\ h.data_len = t.data_len - GetSize(t, n) /\ h.data_size = t.data_size
    BY <1>1, <2>1, <2>3, LRemLoose
  <2>5. h.data_len + k < h.data_size
    <3>1. t.data_size \in Nat
      BY <1>1, LayoutFacts
    <3> DEFINE a == h.data_len
    <3> HIDE DEF a
    <3>2. a = t.data_len - GetSize(t, n)
      BY <2>4 DEF a
    <3>3. a + k < t.data_size
      BY <1>1, <1>2, <1>3, <3>1, <3>2
    <3> QED BY <2>4, <3>3 DEF a
  <2> HIDE DEF h
  <2>6. Rings(Loose(h, k)) /\ Items(Loose(h, k)) = Items(h)
    BY <1>1, <2>2, <2>5, LooseRings
  <2> QED BY <1>1, <2>2, <2>4, <2>6
<1>5. CASE n + 1 = l.count
  <2> DEFINE d == l.data_len - GetSize(l, n)
             g == [l EXCEPT !.count = n, !.data_len = d]
  <2>1. LRemItem(l, n) = g
    <3>1. l.count - 1 = n
      BY <1>2, <1>5
    <3> QED BY <1>1, <1>5, <3>1 DEF LRemItem, Loose, WellFormed
  <2>2. Distance(l, n) = Distance(t, n) /\ Distance(t, n) \in 0..t.data_len
        /\ Distance(t, n + 1) = t.data_len
    <3>1. n \in 0..t.count /\ n + 1 = t.count
      BY <1>2, <1>5
    <3> QED BY <1>1, <3>1, SameRead, LayoutElim
  <2>3. d \in Nat /\ Distance(l, n) <= d /\ d < l.data_size
    <3>1. t.data_size \in Nat /\ l.data_size = t.data_size
      BY <1>1, <1>2, LayoutFacts
    <3>2. d = (t.data_len + k) - GetSize(t, n)
      BY <1>1, <1>2
    <3> HIDE DEF d
    <3> QED BY <1>1, <1>2, <1>3, <2>2, <3>1, <3>2
  <2>4. n \in 0..l.count
    BY <1>2
  <2>5. Rings(g) /\ Items(g) = SubSeq(Items(l), 1, n)
    <3> HIDE DEF d
    <3> QED BY <2>3, <2>4, CutRings
  <2>6. SubSeq(Items(l), 1, n) = RemoveAt(Items(l), n + 1)
    <3> DEFINE q == Items(l)
               S == Seq(Byte)
               r == RemoveAt(q, n + 1)
               p == SubSeq(q, 1, n)
    <3>1. q \in Seq(S) /\ Len(q) = n + 1
      BY <1>1, <1>2, <1>5, ItemsType
    <3> HIDE DEF q, S
    <3>2. r \in Seq(S) /\ Len(r) = n /\ \A j \in 1..n : r[j] = q[j]
      <4>1. n + 1 \in 1..Len(q) /\ Len(q) - 1 = n
        BY <1>2, <3>1
      <4>2. /\ r \in Seq(S) /\ Len(r) = n
            /\ \A j \in 1..n : r[j] = IF j < n + 1 THEN q[j] ELSE q[j + 1]
        BY <3>1, <4>1, RemoveAtElements
      <4> HIDE DEF r
      <4> QED BY <1>2, <4>2
    <3>3. p \in Seq(S) /\ Len(p) = n /\ \A j \in 1..n : p[j] = q[j]
      BY <1>2, <3>1
    <3> HIDE DEF r, p
    <3>4. p = r
      BY <3>2, <3>3, SameSequence
    <3> QED BY <3>4 DEF p, r, q
  <2> QED BY <2>1, <2>5, <2>6
<1> QED BY <1>4, <1>5

\* copy()
LEMMA CopyRings ==
  ASSUME NEW l, Rings(l), NEW is \in Nat \ {0, 1}, NEW ds \in Nat \ {0, 1},
         NEW fill \in Byte, l.count < is, l.data_len < ds
  PROVE  /\ Rings(CopyList(l, is, ds, fill))
         /\ Items(CopyList(l, is, ds, fill)) = Items(l)
<1>1. PICK t, k : /\ WellFormed(t) /\ Layout(t) /\ k \in Nat /\ l = Loose(t, k)
                  /\ t.data_len + k < t.data_size
                  /\ SameBut(t, l) /\ l.data_len = t.data_len + k /\ Items(l) = Items(t)
  BY RingsLoose
<1> DEFINE h    == CopyList(t, is, ds, fill)
           g    == CopyList(l, is, ds, fill)
           e    == EmptyList(is, ds, fill)
           size == Span(t, StartOf(t, 0), EndOf(t, t.count))
           blob == [p \in 0..(ds - 1) |->
                      IF t.count > 0 /\ p < size
                      THEN t.blob[DataOffset(t, StartOf(t, 0), p)] ELSE fill]
           idx  == [i \in 0..(is - 1) |->
                      IF t.count > 0 /\ i <= t.count THEN Offset(t, i) ELSE 0]
<1>2. t.count = l.count /\ t.data_len \in Nat /\ t.data_size \in Nat
  BY <1>1, LayoutFacts DEF SameBut
<1>3. t.count < is /\ t.data_len < ds /\ t.data_len + k < ds
  BY <1>1, <1>2
<1>4. WellFormed(h) /\ Layout(h) /\ Items(h) = Items(t)
  BY <1>1, <1>3, CopyLayout, CopyItems
<1>5. h = [e EXCEPT !.count = t.count, !.data_len = t.data_len, !.blob = blob, !.idx = idx]
  BY DEF CopyList
<1>6. g = [e EXCEPT !.count = t.count, !.data_len = t.data_len + k, !.blob = blob, !.idx = idx]
  <2>1. /\ l.count = t.count /\ l.blob = t.blob /\ l.data_size = t.data_size
        /\ l.data_len = t.data_len + k
    BY <1>1 DEF SameBut
  <2>2. /\ StartOf(l, 0) = StartOf(t, 0) /\ \A n : EndOf(l, n) = EndOf(t, n)
    BY <1>1, SameRead
  <2>3. \A n : Offset(l, n) = Offset(t, n)
    BY <2>1, <2>2 DEF Offset, Span
  <2>4. Span(l, StartOf(l, 0), EndOf(l, l.count)) = size
    BY <2>1, <2>2 DEF Span
  <2>5. \A p : DataOffset(l, StartOf(l, 0), p) = DataOffset(t, StartOf(t, 0), p)
    BY <2>1, <2>2 DEF DataOffset
  <2> DEFINE b == [p \in 0..(ds - 1) |->
                     IF l.count > 0 /\ p < Span(l, StartOf(l, 0), EndOf(l, l.count))
                     THEN l.blob[DataOffset(l, StartOf(l, 0), p)] ELSE fill]
             x == [i \in 0..(is - 1) |->
                      IF l.count > 0 /\ i <= l.count THEN Offset(l, i) ELSE 0]
  <2>6. g = [e EXCEPT !.count = l.count, !.data_len = l.data_len, !.blob = b, !.idx = x]
    BY DEF CopyList
  <2>7. b = blob
    <3> HIDE DEF size
    <3> QED BY <2>1, <2>4, <2>5
  <2>8. x = idx
    BY <2>1, <2>3
  <2> HIDE DEF b, x, blob, idx, e, g
  <2> QED BY <2>1, <2>6, <2>7, <2>8
<1>7. Rec(e) /\ e.data_size = ds
  BY EmptyLayout, WellFormedRec
<1> HIDE DEF e, blob, idx, g
<1>8. g = Loose(h, k) /\ h.data_len = t.data_len /\ h.data_size = ds
  <2> HIDE DEF h
  <2>1. g = Loose(h, k)
    BY <1>5, <1>6, <1>7 DEF Loose, Rec
  <2>2. h.data_len = t.data_len /\ h.data_size = ds
    BY <1>5, <1>7 DEF Rec
  <2> QED BY <2>1, <2>2
<1> HIDE DEF h
<1>9. Rings(g) /\ Items(g) = Items(h)
  BY <1>1, <1>3, <1>4, <1>8, LooseRings
<1> QED BY <1>1, <1>4, <1>9 DEF g

\* init()
LEMMA EmptyRings ==
  ASSUME NEW is \in Nat \ {0, 1}, NEW ds \in Nat \ {0, 1}, NEW fill \in Byte
  PROVE  Rings(EmptyList(is, ds, fill)) /\ EmptyList(is, ds, fill).count = 0
<1> DEFINE e    == EmptyList(is, ds, fill)
           zero == 0
<1>1. WellFormed(e) /\ Layout(e) /\ e.data_size = ds
  BY EmptyLayout
<1>2. e.data_len = 0 /\ e.count = 0
  BY DEF EmptyList
<1> HIDE DEF e
<1>3. Rings(Loose(e, zero))
  <2>1. zero \in Nat /\ e.data_len + zero < e.data_size
    BY <1>1, <1>2
  <2> HIDE DEF zero
  <2> QED BY <1>1, <2>1, LooseRings
<1>4. Loose(e, zero) = e
  <2>1. Rec(e)
    BY <1>1, WellFormedRec
  <2>2. e.data_len + zero = e.data_len
    BY <1>2
  <2> HIDE DEF zero
  <2> QED BY <2>1, <2>2 DEF Loose, Rec
<1> QED BY <1>2, <1>3, <1>4 DEF e

\* init_hash()
LEMMA InitHashRings ==
  ASSUME NEW l, Rings(l)
  PROVE  /\ Rings(InitHash(l)) /\ InitHash(l).count > 0
         /\ Items(InitHash(l)) = IF l.count = 0 THEN << <<>> >> ELSE Items(l)
<1> DEFINE v == <<>>
<1>1. /\ WellFormed(l) /\ l.count \in Nat /\ l.count < l.index_size
      /\ Items(l) \in Seq(Seq(Byte)) /\ Len(Items(l)) = l.count
      /\ l.data_len \in Nat /\ l.data_size \in Nat /\ l.data_len < l.data_size
  BY RingsItems
<1>2. CASE l.count = 0
  <2>1. v \in Seq(Byte) /\ Len(v) = 0
    OBVIOUS
  <2>2. ~ Full(l, Len(v))
    <3>1. l.index_size \in Nat /\ l.index_size > 1
      BY <1>1, HeaderType
    <3> QED BY <1>1, <1>2, <2>1, <3>1 DEF Full, DataFull
  <2> DEFINE g == RPushItem(l, v)
  <2>3. InitHash(l) = g
    BY <1>2 DEF InitHash
  <2> HIDE DEF v
  <2>4. Rings(g) /\ Items(g) = Append(Items(l), v)
    BY <2>1, <2>2, RPushRings
  <2> HIDE DEF g
  <2>5. Append(Items(l), v) = << v >> /\ Len(<< v >>) = 1
    <3> DEFINE q == Items(l)
    <3> HIDE DEF q
    <3>1. q = <<>>
      BY <1>1, <1>2 DEF q
    <3> QED BY <3>1 DEF q
  <2>6. g.count = 1
    BY <2>4, <2>5, RingsItems
  <2> QED BY <1>2, <2>3, <2>4, <2>5, <2>6 DEF v
<1>3. CASE l.count # 0
  BY <1>1, <1>3 DEF InitHash
<1> QED BY <1>2, <1>3

\* A map that is full grows, beyond the number of items.
LEMMA MapGrows ==
  ASSUME NEW cur \in Nat, NEW count \in Nat, count >= cur
  PROVE  /\ NewMapSize(cur, count) - cur \in Nat \ {0}
         /\ NewMapSize(cur, count) > count
<1> DEFINE pad   == Larger(cur \div 4, 2)
           least == Larger(cur, count + pad)
           new   == least + (MapAlign - 1)
<1>1. MapAlign \in Nat /\ MapAlign > 0
  BY HashAssumption
<1>2. pad \in Nat /\ pad >= 2
  BY DEF Larger
<1>3. least \in Nat /\ least > count /\ least > cur
  <2> HIDE DEF pad
  <2> QED BY <1>2 DEF Larger
<1>4. new % MapAlign \in 0..(MapAlign - 1)
  <2>1. new \in Int
    <3> HIDE DEF least
    <3> QED BY <1>1, <1>3
  <2> HIDE DEF new
  <2> QED BY <1>1, <2>1, ModRange
<1>5. NewMapSize(cur, count) = new - (new % MapAlign)
  BY DEF NewMapSize
<1> DEFINE r == new % MapAlign
<1> HIDE DEF least, r
<1>6. new - r >= least /\ new - r \in Int
  BY <1>1, <1>3, <1>4 DEF r
<1> HIDE DEF new
<1> QED BY <1>3, <1>5, <1>6 DEF r

\* One byte is written where copy_into() would write it.
LEMMA OneByte ==
  ASSUME NEW l, WellFormed(l), NEW p \in 0..(l.data_size - 1), NEW h \in Byte
  PROVE  [l EXCEPT !.blob[p] = h] = CopyInto(l, <<h>>, p)
<1> DEFINE v == <<h>>
           d == l.data_size
           b == [l.blob EXCEPT ![p] = h]
           c == [i \in DOMAIN l.blob |->
                   LET j == (i - p) % d IN IF j < Len(v) THEN v[j + 1] ELSE l.blob[i]]
<1>1. d \in Nat /\ d > 0 /\ DOMAIN l.blob = 0..(d - 1)
  BY DEF WellFormed
<1>2. Len(v) = 1 /\ v[1] = h
  OBVIOUS
<1>3. ASSUME NEW i \in 0..(d - 1) PROVE b[i] = c[i]
  <2> DEFINE j == (i - p) % d
  <2>1. j \in Nat /\ (j < 1 <=> i = p)
    <3> HIDE DEF d
    <3> QED BY <1>1 DEF d
  <2>2. c[i] = IF j < Len(v) THEN v[j + 1] ELSE l.blob[i]
    BY <1>1
  <2>3. b[i] = IF i = p THEN h ELSE l.blob[i]
    BY <1>1
  <2> HIDE DEF j, v, b, c
  <2> QED BY <1>2, <2>1, <2>2, <2>3
<1>4. b = c
  <2>1. b = [i \in 0..(d - 1) |-> b[i]] /\ c = [i \in 0..(d - 1) |-> c[i]]
    <3> HIDE DEF v
    <3> QED BY <1>1
  <2> HIDE DEF b, c
  <2> QED BY <1>3, <2>1
<1>5. CopyInto(l, v, p) = [l EXCEPT !.blob = c]
  BY DEF CopyInto
<1>6. [l EXCEPT !.blob[p] = h] = [l EXCEPT !.blob = b]
  OBVIOUS
<1> QED BY <1>4, <1>5, <1>6

\* The bytes resize_hash() moves, of a list with nothing but its items counted.
MovedMap(l, new_start) ==
  LET start == StartOf(l, 0)
      size  == MapSize(l)
      upper == l.data_size - start
  IN  IF size = 0 THEN CopyInto(l, << 0 >>, new_start)
      ELSE IF start + size <= l.data_size THEN CopyMove(l, start, size, new_start)
      ELSE CopyMove(CopyMove(l, start, upper, new_start),
                    0, size - upper, DataOffset(l, new_start, upper))

\* They are those of the map, from the new start on.
LEMMA MovedMapBytes ==
  ASSUME NEW l, WellFormed(l), Layout(l), l.count > 0, NEW need \in Nat,
         need + l.data_len < l.data_size, NEW s, s = DataOffset(l, StartOf(l, 0), -need)
  PROVE  /\ WellFormed(MovedMap(l, s)) /\ SameIndex(l, MovedMap(l, s))
         /\ s \in 0..(l.data_size - 1)
         /\ MapSize(l) > 0 => Shifted(l, MovedMap(l, s), s, need, 0, MapSize(l))
         /\ MapSize(l) = 0 => /\ At(MovedMap(l, s), s, 0) = 0
                              /\ \A k \in 1..(l.data_size - 1) :
                                   At(MovedMap(l, s), s, k) = At(l, s, k)
<1> DEFINE m     == MovedMap(l, s)
           d     == l.data_size
           start == StartOf(l, 0)
           size  == MapSize(l)
           upper == d - start
           zero  == 0
<1>1. /\ d \in Nat /\ d > 0 /\ l.count \in Nat /\ l.data_len \in Nat /\ l.data_len < d
      /\ start \in 0..(d - 1)
  BY LayoutFacts
<1>2. size \in 0..l.data_len
  <2>1. zero \in 0..(l.count - 1)
    BY <1>1
  <2> HIDE DEF zero
  <2>2. GetSize(l, zero) \in 0..l.data_len
    BY <2>1, SizeDistance
  <2> QED BY <2>2 DEF zero, MapSize
<1>3. s \in 0..(d - 1) /\ (s + need) % d = start
  <2>1. s = (start + (-need)) % d
    BY DEF DataOffset
  <2>2. need < d
    BY <1>1
  <2> HIDE DEF start, d
  <2> QED BY SMTT(30), <1>1, <2>1, <2>2
<1>4. CASE size = 0
  <2> DEFINE v == << 0 >>
  <2>1. v \in Seq(Byte) /\ Len(v) = 1 /\ v[1] = 0
    BY HashAssumption
  <2>2. m = CopyInto(l, v, s)
    BY <1>4 DEF MovedMap
  <2> HIDE DEF v, m
  <2>3. WellFormed(m) /\ SameIndex(l, m)
    <3>1. s \in Int
      BY <1>1, <1>3
    <3> QED BY <2>1, <2>2, <3>1, CopyIntoIndex
  <2>4. ASSUME NEW k \in 0..(d - 1)
        PROVE  At(m, s, k) = IF zero <= k /\ k < zero + Len(v) THEN v[(k - zero) + 1]
                             ELSE At(l, s, k)
    <3>1. zero \in 0..(d - 1) /\ zero + Len(v) <= d /\ (s + zero) % d = s
      <4>1. s + zero = s
        BY <1>1, <1>3
      <4>2. s % d = s
        BY <1>1, <1>3, ModSmall
      <4> HIDE DEF d
      <4> QED BY <1>1, <2>1, <4>1, <4>2
    <3> HIDE DEF zero
    <3>2. At(CopyInto(l, v, (s + zero) % d), s, k)
            = IF zero <= k /\ k < zero + Len(v) THEN v[(k - zero) + 1] ELSE At(l, s, k)
      BY ZenonT(30), <1>3, <2>1, <3>1, WrittenBytes
    <3> QED BY <2>2, <3>1, <3>2
  <2>5. At(m, s, 0) = 0
    <3>1. zero \in 0..(d - 1) /\ (0 - zero) + 1 = 1
      BY <1>1
    <3>2. At(m, s, zero) = v[1]
      BY <2>1, <2>4, <3>1
    <3> QED BY <2>1, <3>2
  <2>6. ASSUME NEW k \in 1..(d - 1) PROVE At(m, s, k) = At(l, s, k)
    <3>1. k \in 0..(d - 1) /\ ~ (k < zero + Len(v))
      BY <1>1, <2>1
    <3> QED BY <2>4, <3>1
  <2> QED BY <1>3, <1>4, <2>3, <2>5, <2>6 DEF m
<1>5. CASE size > 0 /\ start + size <= d
  <2>1. m = CopyMove(l, start, size, s)
    BY <1>2, <1>5 DEF MovedMap
  <2>2. /\ need \in Nat /\ zero \in Nat /\ size \in Nat /\ need + size <= d /\ zero + size <= d
        /\ start \in Nat /\ s \in 0..d /\ start = (s + need) % d /\ s % d = (s + zero) % d
    <3>1. s + zero = s
      BY <1>1, <1>3
    <3> HIDE DEF start, size, zero
    <3> QED BY <1>1, <1>2, <1>3, <1>5, <3>1 DEF zero
  <2> HIDE DEF start, size, zero, m
  <2>3. WellFormed(m) /\ SameIndex(l, m) /\ Shifted(l, m, s, need, zero, size)
    BY <1>3, <1>5, <2>1, <2>2, MoveShifts
  <2> QED BY <1>3, <1>5, <2>3 DEF m, zero, size
<1>6. CASE size > 0 /\ ~ (start + size <= d)
  <2> DEFINE n    == CopyMove(l, start, upper, s)
             rest == size - upper
             dest == DataOffset(l, s, upper)
  <2>1. m = CopyMove(n, zero, rest, dest)
    BY <1>2, <1>6 DEF MovedMap
  <2>2. upper \in Nat /\ upper > 0 /\ rest \in Nat /\ rest > 0 /\ upper + rest = size
        /\ need + size <= d /\ size < d /\ start + upper = d
    <3> HIDE DEF start, size
    <3> QED BY <1>1, <1>2, <1>6
  <2> HIDE DEF rest, upper
  <2>3. WellFormed(n) /\ SameIndex(l, n) /\ Shifted(l, n, s, need, zero, upper)
    <3>1. /\ need \in Nat /\ zero \in Nat /\ need + upper <= d /\ zero + upper <= d
          /\ start \in Nat /\ start + upper <= d /\ s \in 0..d
          /\ start = (s + need) % d /\ s % d = (s + zero) % d
      <4>1. s + zero = s
        BY <1>1, <1>3
      <4> HIDE DEF start, size, zero
      <4> QED BY <1>1, <1>2, <1>3, <2>2, <4>1 DEF zero
    <3> HIDE DEF start, zero, n
    <3> QED BY <1>3, <2>2, <3>1, MoveShifts DEF n
  <2>4. n.data_size = d
    BY <2>3 DEF SameIndex
  <2> DEFINE a == need + upper
             e == zero + upper
  <2>5. WellFormed(m) /\ SameIndex(n, m) /\ Shifted(n, m, s, a, e, rest)
    <3>1. /\ a \in Nat /\ e \in Nat /\ a + rest <= d /\ e + rest <= d
          /\ zero \in Nat /\ zero + rest <= d
      <4> HIDE DEF size
      <4> QED BY <1>1, <1>2, <2>2
    <3>2. dest \in 0..d /\ dest % d = (s + e) % d
      <4>1. s + upper \in Int /\ s + e = s + upper
        BY <1>1, <1>3, <2>2
      <4>2. dest \in 0..(d - 1)
        BY <1>1, <4>1, ModRange DEF DataOffset
      <4>3. dest % d = dest
        <5> HIDE DEF dest
        <5> QED BY <1>1, <4>2, ModSmall
      <4>4. dest \in 0..d
        <5> HIDE DEF dest, d
        <5> QED BY <1>1, <4>2
      <4> QED BY <4>1, <4>3, <4>4 DEF DataOffset
    <3>3. zero = (s + a) % d
      <4>1. (((s + need) % d) + upper) % d = (s + (need + upper)) % d
        <5>1. need \in (1 - d)..(d - 1) /\ upper \in Int /\ 0 <= need + upper /\ need + upper < d
          <6> HIDE DEF size
          <6> QED BY <1>1, <2>2
        <5> HIDE DEF d
        <5> QED BY <1>1, <1>3, <5>1, ModAdd
      <4>2. (start + upper) % d = 0
        <5> HIDE DEF d, start
        <5> QED BY <1>1, <2>2
      <4> QED BY <1>3, <4>1, <4>2
    <3> HIDE DEF n, zero, a, e, dest, m
    <3> QED BY <1>3, <2>1, <2>2, <2>3, <2>4, <3>1, <3>2, <3>3, MoveShifts
  <2>6. Shifted(l, m, s, need, zero, upper + rest)
    <3>1. zero \in Nat /\ zero <= need /\ need + (upper + rest) <= d
      BY <2>2
    <3> HIDE DEF n, zero, m
    <3> QED BY <1>1, <2>2, <2>3, <2>4, <2>5, <3>1, ShiftedDown
  <2>7. SameIndex(l, m)
    <3> HIDE DEF n, m
    <3> QED BY <2>3, <2>5, SameIndexTrans
  <2> QED BY <1>3, <1>6, <2>2, <2>5, <2>6, <2>7
<1> QED BY <1>2, <1>4, <1>5, <1>6

\* resize_hash() of such a list: the map is longer and has its bytes.
ResizedBy(l, need) ==
  LET s == DataOffset(l, StartOf(l, 0), -need)
  IN  Rebuilt(MovedMap(l, s), l.first, l.count, l.data_len + need,
              AdjustHead(l, 0, need).idx)

\* e, of need bytes more, begins like v, or with 0 if v has nothing.
Grown(v, e, need) ==
  /\ e \in Seq(Byte) /\ Len(e) = Len(v) + need
  /\ \A k \in 1..Len(v) : e[k] = v[k]
  /\ Len(v) = 0 => e[1] = 0

\* It has the items of the list, behind the map.
LEMMA ResizedItems ==
  ASSUME NEW l, WellFormed(l), Layout(l), l.count > 0, NEW need \in Nat \ {0},
         need + l.data_len < l.data_size
  PROVE  LET g == ResizedBy(l, need)
         IN  /\ WellFormed(g) /\ Layout(g)
             /\ g.count = l.count /\ g.data_size = l.data_size
             /\ g.data_len = l.data_len + need
             /\ Items(g) = [Items(l) EXCEPT ![1] = Item(g, 0)]
             /\ Grown(Item(l, 0), Item(g, 0), need)
<1> DEFINE s    == DataOffset(l, StartOf(l, 0), -need)
           m    == MovedMap(l, s)
           zero == 0
           x    == AdjustHead(l, zero, need).idx
           len  == l.data_len + need
           D    == Stretched(l, zero, need)
           g    == Rebuilt(m, l.first, l.count, len, x)
           d    == l.data_size
           size == MapSize(l)
           v    == Item(l, zero)
           e    == Item(g, zero)
<1>1. /\ d \in Nat /\ d > 0 /\ l.count \in Nat /\ l.data_len \in Nat /\ l.data_len < d
      /\ StartOf(l, 0) \in 0..(d - 1) /\ need \in Nat /\ need > 0
      /\ zero \in 0..(l.count - 1) /\ zero + 1 = 1 /\ zero \in 0..l.count /\ 1 \in 0..l.count
  BY LayoutFacts
<1>2. size = GetSize(l, zero) /\ size \in 0..l.data_len /\ size = Distance(l, 1)
      /\ Distance(l, zero) = 0
  <2>1. Distance(l, zero) = 0 /\ Distance(l, 1) \in 0..l.data_len
    BY <1>1, LayoutElim
  <2>2. GetSize(l, zero) = Distance(l, zero + 1) - Distance(l, zero)
        /\ GetSize(l, zero) \in 0..l.data_len
    <3> HIDE DEF zero
    <3> QED BY <1>1, SizeDistance
  <2> QED BY <1>1, <2>1, <2>2 DEF MapSize
<1>3. /\ WellFormed(m) /\ SameIndex(l, m) /\ s \in 0..(d - 1)
      /\ size > 0 => Shifted(l, m, s, need, 0, size)
      /\ size = 0 => /\ At(m, s, 0) = 0
                     /\ \A k \in 1..(d - 1) : At(m, s, k) = At(l, s, k)
  BY <1>1, MovedMapBytes
<1>4. /\ Table(l, l.first, l.count, len, x, D) /\ x[l.first] = s
  <2>1. -need <= GetSize(l, zero) /\ need \in Int
    BY <1>1, <1>2
  <2> HIDE DEF zero
  <2> QED BY <1>1, <2>1, AdjustHeadTable
<1>5. WellFormed(g) /\ Layout(g) /\ Shape(g, l, l.count, s, D)
  <2> HIDE DEF m, x, D, len, s
  <2> QED BY <1>3, <1>4, MovedLayout
<1>6. g.count = l.count /\ g.data_size = d /\ g.data_len = len /\ g.blob = m.blob
      /\ m.data_size = d
  BY <1>3 DEF Rebuilt, SameIndex, WellFormed
<1>7. \A k : At(g, s, k) = At(m, s, k)
  <2> HIDE DEF m, s, g
  <2> QED BY <1>6 DEF At
<1> HIDE DEF m, x, D, len, s, g
\* What is read from the new start on is what is read from the old one.
<1>8. \A k \in 0..(l.data_len - 1) : At(l, s, k + need) = At(l, StartOf(l, 0), k)
  <2> TAKE k \in 0..(l.data_len - 1)
  <2> DEFINE b == StartOf(l, 0)
  <2>1. s = (b + (-need)) % d
    BY DEF s, DataOffset
  <2>2. (s + (k + need)) % d = (b + k) % d
    <3> DEFINE i  == -need
               kn == k + need
    <3>1. i \in (1 - d)..(d - 1) /\ kn \in Int /\ i + kn = k /\ k \in 0..(d - 1)
      BY <1>1
    <3> HIDE DEF i, kn, d, b
    <3>2. 0 <= i + kn /\ i + kn < d
      BY <1>1, <3>1
    <3>3. (((b + i) % d) + kn) % d = (b + (i + kn)) % d
      BY <1>1, <3>1, <3>2, ModAdd DEF b, d
    <3> QED BY <2>1, <3>1, <3>3 DEF i, kn
  <2> HIDE DEF b
  <2> QED BY <2>2 DEF At, b
<1>9. ASSUME NEW k \in 0..(d - 1), size <= k, k > 0 PROVE At(m, s, k) = At(l, s, k)
  <2>1. CASE size = 0
    <3>1. k \in 1..(d - 1)
      BY <1>1, <1>9
    <3> QED BY <1>3, <2>1, <3>1
  <2>2. CASE size > 0
    <3>1. ~ (k < 0 + size)
      <4> HIDE DEF size
      <4> QED BY <1>1, <1>2, <1>9
    <3> HIDE DEF size
    <3> QED BY <1>3, <2>2, <3>1 DEF Shifted
  <2> HIDE DEF size
  <2> QED BY <1>1, <1>2, <2>1, <2>2
<1>10. Around(l, g, s, zero, need)
  <2> SUFFICES ASSUME NEW k \in 0..(l.data_len - 1)
               PROVE  /\ ~ (k < Distance(l, zero))
                      /\ k >= Distance(l, zero + 1) => At(g, s, k + need) = At(l, StartOf(l, 0), k)
    BY DEF Around
  <2>1. ~ (k < Distance(l, zero))
    BY <1>1, <1>2
  <2>2. ASSUME k >= Distance(l, zero + 1) PROVE At(g, s, k + need) = At(l, StartOf(l, 0), k)
    <3> DEFINE kn == k + need
    <3>1. k >= size
      BY <1>1, <1>2, <2>2
    <3>2. kn \in 0..(d - 1) /\ size <= kn /\ kn > 0
      <4> HIDE DEF size
      <4> QED BY <1>1, <1>2, <3>1
    <3> HIDE DEF size, kn
    <3>3. At(g, s, kn) = At(l, s, kn)
      BY <1>7, <1>9, <3>2
    <3> QED BY <1>8, <3>3 DEF kn
  <2> QED BY <2>1, <2>2
<1>11. /\ Items(g) = [Items(l) EXCEPT ![zero + 1] = e]
       /\ e \in Seq(Byte) /\ Len(e) = size + need /\ Distance(g, zero) = Distance(l, zero)
  <2>1. -need <= GetSize(l, zero) /\ need \in Int
    BY <1>1, <1>2
  <2>2. D = Stretched(l, zero, need)
    BY DEF D
  <2> HIDE DEF zero, size
  <2>3. /\ zero \in 0..(l.count - 1) /\ need \in Int /\ need + l.data_len < l.data_size
    BY <1>1, <2>1
  <2>4. /\ Items(g) = [Items(l) EXCEPT ![zero + 1] = Item(g, zero)]
        /\ Item(g, zero) \in Seq(Byte) /\ Len(Item(g, zero)) = GetSize(l, zero) + need
        /\ Distance(g, zero) = Distance(l, zero)
    BY <1>5, <1>10, <2>1, <2>2, <2>3, Replaced
  <2> QED BY <1>2, <2>4
<1>12. v \in Seq(Byte) /\ Len(v) = size
       /\ \A k \in 1..size : v[k] = At(l, StartOf(l, 0), Distance(l, zero) + (k - 1))
  <2> HIDE DEF zero, size
  <2>1. /\ Item(l, zero) \in Seq(Byte) /\ Len(Item(l, zero)) = GetSize(l, zero)
        /\ \A k \in 1..GetSize(l, zero) :
              Item(l, zero)[k] = At(l, StartOf(l, 0), Distance(l, zero) + (k - 1))
    BY <1>1, ItemBytes
  <2> QED BY <1>2, <2>1
<1>13. \A k \in 1..(size + need) : e[k] = At(g, s, Distance(g, zero) + (k - 1))
  <2>1. StartOf(g, 0) = s /\ zero \in 0..(g.count - 1)
    BY <1>1, <1>5, <1>6 DEF Shape
  <2> HIDE DEF zero
  <2>2. /\ Len(Item(g, zero)) = GetSize(g, zero)
        /\ \A k \in 1..GetSize(g, zero) :
             Item(g, zero)[k] = At(g, StartOf(g, 0), Distance(g, zero) + (k - 1))
    BY <1>5, <2>1, ItemBytes
  <2> QED BY <1>11, <2>1, <2>2
<1>14. ASSUME NEW k \in 1..size PROVE e[k] = v[k]
  <2> DEFINE i == k - 1
  <2>1. i \in 0..(d - 1) /\ i \in 0..(l.data_len - 1) /\ 0 + i = i /\ size > 0 /\ i < size
        /\ k \in 1..(size + need)
    <3> HIDE DEF size
    <3> QED BY <1>1, <1>2
  <2>2. e[k] = At(m, s, i)
    <3>1. e[k] = At(g, s, 0 + i)
      BY <1>2, <1>11, <1>13, <2>1
    <3> QED BY <1>7, <2>1, <3>1
  <2>3. v[k] = At(l, StartOf(l, 0), i)
    BY <1>2, <1>12, <2>1
  <2>4. At(m, s, i) = At(l, s, (i - 0) + need)
    <3>1. 0 <= i /\ i < 0 + size
      <4> HIDE DEF size, i
      <4> QED BY <1>2, <2>1
    <3> HIDE DEF size, i
    <3> QED BY <1>3, <2>1, <3>1 DEF Shifted
  <2>5. (i - 0) + need = i + need
    BY <2>1
  <2>6. At(l, s, i + need) = At(l, StartOf(l, 0), i)
    <3> HIDE DEF i
    <3> QED BY <1>8, <2>1
  <2> HIDE DEF e, v
  <2> QED BY <2>2, <2>3, <2>4, <2>5, <2>6
<1>15. size = 0 => e[1] = 0
  <2> SUFFICES ASSUME size = 0 PROVE e[1] = 0
    OBVIOUS
  <2>1. 1 \in 1..(size + need) /\ 0 + (1 - 1) = 0
    BY <1>1
  <2>2. e[1] = At(g, s, 0 + (1 - 1))
    BY <1>2, <1>11, <1>13, <2>1
  <2> HIDE DEF e
  <2> QED BY <1>3, <1>7, <2>1, <2>2
<1>16. Grown(v, e, need)
  <2> HIDE DEF e, v, size
  <2> QED BY <1>11, <1>12, <1>14, <1>15 DEF Grown
<1>17. ResizedBy(l, need) = g
  BY DEF ResizedBy, g, len, x, m, s
<1> QED BY <1>1, <1>5, <1>6, <1>11, <1>16, <1>17 DEF len

\* The list with other bytes.
WithBlob(l, b) == [l EXCEPT !.blob = b]

\* Where the bytes go does not hang on the rest of the list.
LEMMA CopyMoveBlob ==
  ASSUME NEW l, Rec(l), NEW m, Rec(m), l.data_size = m.data_size,
         NEW x, NEW y, NEW z
  PROVE  /\ CopyMove(WithBlob(l, m.blob), x, y, z) = WithBlob(l, CopyMove(m, x, y, z).blob)
         /\ Rec(CopyMove(m, x, y, z)) /\ CopyMove(m, x, y, z).data_size = m.data_size
<1> DEFINE g   == WithBlob(l, m.blob)
           len == m.data_size - z
           upper == MemMove(m.blob, z, m.blob, x, len)
           from == IF z >= x \/ (y - len) > x + y THEN m.blob ELSE upper
           b1  == MemMove(m.blob, z, m.blob, x, y)
           b2  == MemMove(upper, 0, from, x + len, y - len)
           b   == IF z + y <= m.data_size THEN b1 ELSE b2
<1>1. g.blob = m.blob /\ g.data_size = m.data_size
  BY DEF WithBlob, Rec
<1>2. CopyMove(m, x, y, z) = [m EXCEPT !.blob = b]
  BY DEF CopyMove
<1>3. CopyMove(g, x, y, z) = [g EXCEPT !.blob = b]
  <2> HIDE DEF g
  <2> QED BY <1>1 DEF CopyMove
<1> HIDE DEF b
<1>4. [m EXCEPT !.blob = b].blob = b
  BY DEF Rec
<1>5. [g EXCEPT !.blob = b] = WithBlob(l, b)
  BY DEF WithBlob, Rec
<1>6. Rec([m EXCEPT !.blob = b]) /\ [m EXCEPT !.blob = b].data_size = m.data_size
  BY DEF Rec
<1> QED BY <1>2, <1>3, <1>4, <1>5, <1>6

\* resize_hash() when it is called, with room: the map is longer, beyond the
\* number of items.
LEMMA ResizeRings ==
  ASSUME NEW l, Rings(l), l.count > 0, l.count >= MapSize(l), ~ DataFull(l, MapGrowth(l))
  PROVE  LET g == ResizeHash(l)
         IN  /\ Rings(g) /\ g.count = l.count
             /\ Items(g) = [Items(l) EXCEPT ![1] = Item(g, 0)]
             /\ Grown(Item(l, 0), Item(g, 0), MapGrowth(l))
             /\ Len(Item(g, 0)) > l.count
<1> DEFINE need == MapGrowth(l)
           size == MapSize(l)
           zero == 0
<1>1. PICK t, k : /\ WellFormed(t) /\ Layout(t) /\ k \in Nat /\ l = Loose(t, k)
                  /\ t.data_len + k < t.data_size
                  /\ SameBut(t, l) /\ l.data_len = t.data_len + k /\ Items(l) = Items(t)
  BY RingsLoose
<1> DEFINE d    == t.data_size
           s    == DataOffset(t, StartOf(t, 0), -need)
           m    == MovedMap(t, s)
           x    == AdjustHead(t, zero, need).idx
           h    == ResizedBy(t, need)
<1>2. /\ t.count = l.count /\ t.count \in Nat /\ t.count > 0 /\ t.data_len \in Nat
      /\ d \in Nat /\ d > 0 /\ l.data_size = d /\ t.first \in 0..(t.index_size - 1)
      /\ l.blob = t.blob /\ l.idx = t.idx /\ l.first = t.first
      /\ t.idx \in [0..(t.index_size - 1) -> 0..(d - 1)]
      /\ t.index_size \in Nat /\ t.index_size > 0
  BY <1>1, LayoutFacts DEF SameBut
<1>3. /\ GetSize(l, zero) = GetSize(t, zero) /\ StartOf(l, 0) = StartOf(t, 0)
      /\ Item(l, zero) = Item(t, zero)
  BY <1>1, SameRead
<1>4. size = MapSize(t) /\ size = Len(Item(l, zero)) /\ size \in Nat
  <2>1. zero \in 0..(t.count - 1)
    BY <1>2
  <2> HIDE DEF zero
  <2>2. Len(Item(t, zero)) = GetSize(t, zero) /\ GetSize(t, zero) \in Nat
    BY <1>1, <2>1, ItemBytes
  <2> QED BY <1>3, <2>2 DEF MapSize, zero
<1>5. need \in Nat \ {0} /\ size + need > l.count
  <2> DEFINE new == NewMapSize(size, l.count)
  <2>1. new - size \in Nat \ {0} /\ new > l.count
    <3> HIDE DEF size
    <3>1. l.count \in Nat /\ l.count >= size
      BY <1>2 DEF size
    <3> QED BY <1>4, <3>1, MapGrows
  <2>2. need = new - size
    BY DEF MapGrowth
  <2>3. new \in Int
    <3>1. MapAlign \in Nat /\ MapAlign > 0
      BY HashAssumption
    <3> DEFINE a == Larger(size, l.count + Larger(size \div 4, 2)) + (MapAlign - 1)
    <3>2. a \in Int
      <4>1. Larger(size \div 4, 2) \in Nat
        <5> HIDE DEF size
        <5> QED BY <1>4 DEF Larger
      <4> HIDE DEF size
      <4> QED BY <1>2, <1>4, <3>1, <4>1 DEF Larger
    <3>3. new = a - (a % MapAlign)
      BY DEF NewMapSize
    <3> HIDE DEF a, new
    <3>4. a % MapAlign \in Int
      BY <3>1, <3>2, ModRange
    <3> QED BY <3>2, <3>3, <3>4
  <2> HIDE DEF new, size, need
  <2> QED BY <1>2, <1>4, <2>1, <2>2, <2>3
<1>6. need + t.data_len < d /\ t.data_len + need + k < d
  <2>1. ~ (need + (t.data_len + k) > d - 1)
    BY <1>1, <1>2 DEF DataFull
  <2> HIDE DEF need, d
  <2> QED BY <1>1, <1>2, <1>5, <2>1 DEF d
<1>7. /\ WellFormed(h) /\ Layout(h)
      /\ h.count = t.count /\ h.data_size = d
      /\ h.data_len = t.data_len + need
      /\ Items(h) = [Items(t) EXCEPT ![1] = Item(h, 0)]
      /\ Grown(Item(t, 0), Item(h, 0), need)
  <2> HIDE DEF need
  <2> QED BY <1>1, <1>2, <1>5, <1>6, ResizedItems
<1>8. WellFormed(m) /\ SameIndex(t, m) /\ s \in 0..(d - 1)
  <2> HIDE DEF need
  <2> QED BY <1>1, <1>2, <1>5, <1>6, MovedMapBytes
<1> HIDE DEF need, h
<1>9. x = [t.idx EXCEPT ![t.first] = s]
  <2> DEFINE y == [i \in DOMAIN t.idx |-> IF (i - t.first) % t.index_size <= zero
                        THEN DataOffset(t, t.idx[i], -need) ELSE t.idx[i]]
  <2>1. x = y
    BY <1>1 DEF AdjustHead, WellFormed
  <2>2. StartOf(t, 0) = t.idx[t.first]
    <3>1. IndexRef(t, 0) = t.first
      BY <1>1, IndexRefZero
    <3> QED BY <3>1 DEF StartOf
  <2>3. ASSUME NEW i \in 0..(t.index_size - 1) PROVE y[i] = [t.idx EXCEPT ![t.first] = s][i]
    <3> DEFINE j == (i - t.first) % t.index_size
               f == t.first
               is == t.index_size
    <3>1. j \in Nat /\ (j <= zero <=> i = t.first)
      <4>1. is \in Nat /\ is > 0 /\ f \in 0..(is - 1) /\ i \in 0..(is - 1) /\ j = (i - f) % is
        BY <1>2
      <4> HIDE DEF f, is, j
      <4>2. j \in Nat /\ (j <= 0 <=> i = f)
        BY <4>1
      <4> QED BY <4>2 DEF f
    <3>2. y[i] = IF j <= zero THEN DataOffset(t, t.idx[i], -need) ELSE t.idx[i]
      BY <1>2
    <3>3. [t.idx EXCEPT ![t.first] = s][i] = IF i = t.first THEN s ELSE t.idx[i]
      BY <1>2
    <3> HIDE DEF j, y
    <3> QED BY <2>2, <3>1, <3>2, <3>3
  <2>4. y = [i \in 0..(t.index_size - 1) |-> y[i]]
    BY <1>2
  <2>5. [t.idx EXCEPT ![t.first] = s] = [i \in 0..(t.index_size - 1) |-> [t.idx EXCEPT ![t.first] = s][i]]
    BY <1>2
  <2> HIDE DEF y, s, x
  <2> QED BY <2>1, <2>3, <2>4, <2>5
<1> DEFINE grown == [l EXCEPT !.idx[l.first] = s, !.data_len = @ + need]
           upper == d - StartOf(t, 0)
           start == StartOf(t, 0)
           g     == ResizeHash(l)
<1>10. Rec(t) /\ Rec(grown) /\ grown.data_size = d /\ grown = WithBlob(grown, t.blob)
  <2>1. Rec(t) /\ Rec(l)
    BY <1>1, WellFormedRec, LooseRead
  <2> HIDE DEF s
  <2>2. grown.blob = t.blob /\ Rec(grown) /\ grown.data_size = d
    <3>1. grown.blob = l.blob /\ grown.data_size = l.data_size
      OBVIOUS
    <3> DEFINE y == [l.idx EXCEPT ![l.first] = s]
               c == l.data_len + need
    <3>2. grown = [l EXCEPT !.idx = y, !.data_len = c]
      OBVIOUS
    <3> HIDE DEF y, c, grown
    <3>3. Rec(grown)
      BY <2>1, <3>2 DEF Rec
    <3> QED BY <1>2, <3>1, <3>3
  <2> HIDE DEF grown
  <2> QED BY <2>1, <2>2 DEF WithBlob, Rec
<1>11. DataOffset(l, StartOf(l, 0), -need) = s
  BY <1>2, <1>3 DEF DataOffset
<1>12. g = IF size = 0 THEN [grown EXCEPT !.blob[s] = 0]
           ELSE IF start + size <= d THEN CopyMove(grown, start, size, s)
           ELSE CopyMove(CopyMove(grown, start, upper, s), 0, size - upper,
                         DataOffset(t, s, upper))
  <2>1. \A o : DataOffset(l, s, o) = DataOffset(t, s, o)
    BY <1>2 DEF DataOffset
  <2> HIDE DEF s
  <2> QED BY <1>2, <1>3, <1>11, <2>1 DEF ResizeHash, need
<1> HIDE DEF grown, s, start, upper, size
<1>13. g = WithBlob(grown, m.blob)
  <2>1. CASE size = 0
    <3> DEFINE v == << 0 >>
               n == CopyInto(t, v, s)
    <3>1. m = n
      BY <1>4, <2>1 DEF MovedMap
    <3>2. [t EXCEPT !.blob[s] = 0] = n
      BY <1>1, <1>8, OneByte, HashAssumption
    <3>3. [grown EXCEPT !.blob[s] = 0] = WithBlob(grown, [t.blob EXCEPT ![s] = 0])
      <4>1. grown.blob = t.blob
        BY <1>10 DEF WithBlob, Rec
      <4> QED BY <1>10, <4>1 DEF WithBlob, Rec
    <3>4. n.blob = [t.blob EXCEPT ![s] = 0]
      <4> HIDE DEF n
      <4> QED BY <1>10, <3>2 DEF Rec
    <3> HIDE DEF n
    <3> QED BY <1>12, <2>1, <3>1, <3>3, <3>4
  <2>2. CASE size # 0 /\ start + size <= d
    <3>1. m = CopyMove(t, start, size, s)
      BY <1>4, <2>2 DEF MovedMap, start
    <3>2. CopyMove(WithBlob(grown, t.blob), start, size, s)
             = WithBlob(grown, CopyMove(t, start, size, s).blob)
      BY <1>10, CopyMoveBlob
    <3> QED BY <1>10, <1>12, <2>2, <3>1, <3>2
  <2>3. CASE size # 0 /\ ~ (start + size <= d)
    <3> DEFINE n    == CopyMove(t, start, upper, s)
               rest == size - upper
               dest == DataOffset(t, s, upper)
               o    == CopyMove(n, zero, rest, dest)
    <3>1. m = o
      BY <1>4, <2>3 DEF MovedMap, start, upper
    <3>2. /\ CopyMove(WithBlob(grown, t.blob), start, upper, s) = WithBlob(grown, n.blob)
          /\ Rec(n) /\ n.data_size = t.data_size
      BY <1>10, CopyMoveBlob
    <3> HIDE DEF n, rest, dest, zero
    <3>3. CopyMove(WithBlob(grown, n.blob), zero, rest, dest) = WithBlob(grown, o.blob)
      BY <1>10, <3>2, CopyMoveBlob
    <3>4. g = CopyMove(CopyMove(grown, start, upper, s), zero, rest, dest)
      BY <1>12, <2>3 DEF rest, dest, zero
    <3> QED BY <1>10, <3>1, <3>2, <3>3, <3>4
  <2> QED BY <2>1, <2>2, <2>3
<1>14. g = Loose(h, k)
  <2> DEFINE a == t.data_len
             b == m.blob
             y == [t.idx EXCEPT ![t.first] = s]
  <2>1. grown = [t EXCEPT !.idx = y, !.data_len = (a + k) + need]
    BY <1>1, <1>2, <1>10 DEF grown, Loose, Rec
  <2>2. h = [m EXCEPT !.first = t.first, !.count = t.count, !.data_len = a + need, !.idx = y]
    BY <1>9 DEF h, ResizedBy, Rebuilt, s
  <2>3. m = [t EXCEPT !.blob = b]
    <3>1. Rec(m)
      BY <1>8, WellFormedRec
    <3> HIDE DEF m
    <3> QED BY <1>8, <1>10, <3>1 DEF SameIndex, Rec
  <2>4. (a + k) + need = (a + need) + k
    <3> HIDE DEF a
    <3>1. a \in Int
      BY <1>2 DEF a
    <3> QED BY <1>1, <1>5, <3>1
  <2> HIDE DEF a, b, y, m
  <2>5. g = [t EXCEPT !.idx = y, !.data_len = (a + need) + k, !.blob = b]
    BY <1>10, <1>13, <2>1, <2>4 DEF WithBlob, Rec, b
  <2>6. h = [t EXCEPT !.idx = y, !.data_len = a + need, !.blob = b]
    BY <1>10, <2>2, <2>3 DEF Rec
  <2> HIDE DEF g
  <2> QED BY <1>10, <2>5, <2>6 DEF Loose, Rec
<1> HIDE DEF g
<1>15. /\ Rings(g) /\ SameBut(h, g) /\ Items(g) = Items(h)
  <2>1. h.data_len + k < h.data_size
    <3> HIDE DEF d
    <3> QED BY <1>6, <1>7
  <2> QED BY <1>1, <1>7, <1>14, <2>1, LooseRings
<1>16. Item(g, 0) = Item(h, 0) /\ g.count = t.count
  BY <1>7, <1>15, SameRead DEF SameBut
<1>17. Len(Item(g, 0)) > l.count
  <2>1. Len(Item(h, 0)) = Len(Item(t, 0)) + need
    BY <1>7 DEF Grown
  <2> QED BY <1>3, <1>4, <1>5, <1>16, <2>1
<1> QED BY <1>1, <1>2, <1>3, <1>7, <1>15, <1>16, <1>17 DEF g, need

\* e has the bytes of v as far as both go.
Prefixed(v, e) == \A k \in 1..Len(v) : k <= Len(e) => e[k] = v[k]

\* The tail moved by amt, of a list with nothing but its items counted.
StretchedBy(l, n, amt) ==
  Rebuilt(MoveTail(l, n, amt), l.first, l.count, l.data_len + amt, AdjustTail(l, n, amt).idx)

\* It has the items of the list but for the one stretched.
LEMMA StretchedItems ==
  ASSUME NEW l, WellFormed(l), Layout(l), NEW n \in 0..(l.count - 1),
         NEW amt \in Int, -amt <= GetSize(l, n), amt + l.data_len < l.data_size
  PROVE  LET g == StretchedBy(l, n, amt)
         IN  /\ WellFormed(g) /\ Layout(g)
             /\ g.count = l.count /\ g.data_size = l.data_size
             /\ g.data_len = l.data_len + amt
             /\ Items(g) = [Items(l) EXCEPT ![n + 1] = Item(g, n)]
             /\ Item(g, n) \in Seq(Byte) /\ Len(Item(g, n)) = GetSize(l, n) + amt
             /\ Prefixed(Item(l, n), Item(g, n))
             /\ StartOf(g, n) = StartOf(l, n)
<1> DEFINE s    == StartOf(l, 0)
           m    == MoveTail(l, n, amt)
           x    == AdjustTail(l, n, amt).idx
           len  == l.data_len + amt
           D    == Stretched(l, n, amt)
           g    == Rebuilt(m, l.first, l.count, len, x)
           d    == l.data_size
           size == GetSize(l, n)
           v    == Item(l, n)
           e    == Item(g, n)
           a    == Distance(l, n + 1)
           b    == Distance(l, n)
<1>1. /\ d \in Nat /\ d > 0 /\ l.count \in Nat /\ l.data_len \in Nat /\ l.data_len < d
      /\ s \in 0..(d - 1) /\ n \in 0..l.count /\ n + 1 \in 0..l.count /\ n \in Nat
  BY LayoutFacts
<1>2. /\ size \in 0..l.data_len /\ size = a - b /\ a \in 0..l.data_len /\ b \in 0..l.data_len
  BY <1>1, LayoutElim, SizeDistance
<1>3. WellFormed(m) /\ SameIndex(l, m) /\ Shifted(l, m, s, a, a + amt, l.data_len - a)
  BY TailShifts
<1>4. Table(l, l.first, l.count, len, x, D) /\ x[l.first] = s
  BY AdjustTailTable
<1>5. WellFormed(g) /\ Layout(g) /\ Shape(g, l, l.count, s, D)
  <2> HIDE DEF m, x, D, len, s
  <2> QED BY <1>3, <1>4, MovedLayout
<1>6. g.count = l.count /\ g.data_size = d /\ g.data_len = len /\ g.blob = m.blob
      /\ m.data_size = d
  BY <1>3 DEF Rebuilt, SameIndex, WellFormed
<1>7. \A k : At(g, s, k) = At(m, s, k)
  <2> HIDE DEF m, s, g
  <2> QED BY <1>6 DEF At
<1>8. Around(l, g, s, n, amt)
  <2>1. Around(l, m, s, n, amt)
    BY TailAround
  <2> HIDE DEF m, g
  <2> QED BY <1>7, <2>1 DEF Around
<1> HIDE DEF x, len, g, m, D
<1>9. /\ Items(g) = [Items(l) EXCEPT ![n + 1] = e]
      /\ e \in Seq(Byte) /\ Len(e) = size + amt /\ Distance(g, n) = b
  <2>1. D = Stretched(l, n, amt)
    BY DEF D
  <2> HIDE DEF s
  <2>2. /\ Items(g) = [Items(l) EXCEPT ![n + 1] = Item(g, n)]
        /\ Item(g, n) \in Seq(Byte) /\ Len(Item(g, n)) = GetSize(l, n) + amt
        /\ Distance(g, n) = Distance(l, n)
    BY <1>5, <1>8, <2>1, Replaced
  <2> QED BY <2>2
<1>10. v \in Seq(Byte) /\ Len(v) = size
       /\ \A k \in 1..size : v[k] = At(l, s, b + (k - 1))
  BY ItemBytes
<1>11. /\ Len(e) = GetSize(g, n) /\ StartOf(g, 0) = s
       /\ \A k \in 1..Len(e) : e[k] = At(g, s, b + (k - 1))
  <2>1. StartOf(g, 0) = s /\ n \in 0..(g.count - 1)
    BY <1>1, <1>5, <1>6 DEF Shape
  <2> HIDE DEF s, e, b
  <2>2. /\ Len(Item(g, n)) = GetSize(g, n)
        /\ \A k \in 1..GetSize(g, n) :
             Item(g, n)[k] = At(g, StartOf(g, 0), Distance(g, n) + (k - 1))
    BY <1>5, <2>1, ItemBytes
  <2> QED BY <1>9, <2>1, <2>2 DEF e
<1>12. ASSUME NEW k \in 1..Len(v), k <= Len(e) PROVE e[k] = v[k]
  <2> DEFINE i == b + (k - 1)
  <2>1. i \in 0..(d - 1) /\ ~ (a + amt <= i) /\ k \in 1..size /\ k \in 1..Len(e)
    <3> HIDE DEF e, v, size, a, b
    <3> QED BY SMTT(30), <1>1, <1>2, <1>9, <1>10, <1>12
  <2>2. At(m, s, i) = At(l, s, i)
    <3> HIDE DEF i, a, s
    <3> QED BY <1>3, <2>1 DEF Shifted
  <2> HIDE DEF e, v, size
  <2> QED BY <1>7, <1>10, <1>11, <2>1, <2>2
<1>13. StartOf(g, n) = StartOf(l, n)
  <2>1. StartOf(l, n) = (s + b) % d
    BY <1>1, LayoutElim
  <2>2. StartOf(g, n) = (StartOf(g, 0) + Distance(g, n)) % g.data_size
    <3>1. n \in 0..g.count
      BY <1>1, <1>6
    <3> QED BY <1>5, <3>1, LayoutElim
  <2> QED BY <1>6, <1>9, <1>11, <2>1, <2>2
<1>14. StretchedBy(l, n, amt) = g
  BY DEF StretchedBy, g, len, x, m
<1> QED BY <1>5, <1>6, <1>9, <1>12, <1>13, <1>14 DEF len, Prefixed

\* Room made behind item n, or bytes taken off its end.
LEMMA StretchRings ==
  ASSUME NEW l, Rings(l), NEW n \in 0..(l.count - 1), NEW amt \in Int,
         -amt <= GetSize(l, n), ~ (amt > 0 /\ DataFull(l, amt))
  PROVE  LET g == Stretch(l, n, amt, FALSE)
         IN  /\ Rings(g) /\ g.count = l.count /\ g.data_size = l.data_size
             /\ Items(g) = [Items(l) EXCEPT ![n + 1] = Item(g, n)]
             /\ Item(g, n) \in Seq(Byte) /\ Len(Item(g, n)) = GetSize(l, n) + amt
             /\ Prefixed(Item(l, n), Item(g, n))
             /\ StartOf(g, n) = StartOf(l, n)
<1> DEFINE g    == Stretch(l, n, amt, FALSE)
           size == GetSize(l, n)
<1>1. PICK t, k : /\ WellFormed(t) /\ Layout(t) /\ k \in Nat /\ l = Loose(t, k)
                  /\ t.data_len + k < t.data_size
                  /\ SameBut(t, l) /\ l.data_len = t.data_len + k /\ Items(l) = Items(t)
  BY RingsLoose
<1>2. /\ t.count = l.count /\ t.count \in Nat /\ t.data_len \in Nat /\ t.data_size \in Nat
      /\ l.data_size = t.data_size
  BY <1>1, LayoutFacts DEF SameBut
<1>3. /\ size = GetSize(t, n) /\ StartOf(l, n) = StartOf(t, n) /\ Item(l, n) = Item(t, n)
  BY <1>1, SameRead
<1>4. n \in 0..(t.count - 1) /\ size \in Nat /\ Item(t, n) \in Seq(Byte) /\ Len(Item(t, n)) = size
  <2>1. n \in 0..(t.count - 1)
    BY <1>2
  <2>2. GetSize(t, n) \in Nat /\ Item(t, n) \in Seq(Byte) /\ Len(Item(t, n)) = GetSize(t, n)
    BY <1>1, <2>1, ItemBytes
  <2> QED BY <1>3, <2>1, <2>2
<1> HIDE DEF size
<1>5. CASE amt = 0
  <2>1. g = l
    <3>1. Rec(l) /\ l.data_len + amt = l.data_len
      <4>1. l.data_len \in Int
        BY <1>1, <1>2
      <4> QED BY <1>1, <1>5, <4>1, WellFormedRec, LooseRead
    <3>2. g = [l EXCEPT !.data_len = l.data_len + amt]
      BY <1>5 DEF Stretch
    <3> QED BY <3>1, <3>2 DEF Rec
  <2>2. Items(l) = [Items(l) EXCEPT ![n + 1] = Item(l, n)]
    <3>1. Items(l)[n + 1] = Item(l, n)
      BY RingsItems
    <3>2. Items(l) \in Seq(Seq(Byte))
      BY RingsItems
    <3> QED BY <3>1, <3>2
  <2>3. Prefixed(Item(l, n), Item(l, n))
    BY DEF Prefixed
  <2>4. Item(l, n) \in Seq(Byte) /\ Len(Item(l, n)) = GetSize(l, n) + amt
    BY <1>3, <1>4, <1>5 DEF size
  <2> HIDE DEF g
  <2>5. /\ Rings(g) /\ g.count = l.count /\ g.data_size = l.data_size
        /\ Items(g) = [Items(l) EXCEPT ![n + 1] = Item(g, n)]
        /\ Item(g, n) \in Seq(Byte) /\ Len(Item(g, n)) = GetSize(l, n) + amt
        /\ Prefixed(Item(l, n), Item(g, n))
        /\ StartOf(g, n) = StartOf(l, n)
    BY <2>1, <2>2, <2>3, <2>4
  <2> QED BY <2>5 DEF g
<1>6. CASE amt # 0
  <2> DEFINE h == StretchedBy(t, n, amt)
             u == AdjustTail(MoveTail(t, n, amt), n, amt)
             p == MoveTail(t, n, amt)
             w == MoveTail(l, n, amt)
  <2>1. -amt <= GetSize(t, n) /\ amt + t.data_len < t.data_size
        /\ t.data_len + amt + k < t.data_size
    <3>1. DataFull(l, amt) <=> amt + (t.data_len + k) > t.data_size - 1
      BY <1>1, <1>2 DEF DataFull
    <3> QED BY <1>1, <1>2, <1>3, <3>1 DEF size
  <2>2. /\ WellFormed(h) /\ Layout(h)
        /\ h.count = t.count /\ h.data_size = t.data_size
        /\ h.data_len = t.data_len + amt
        /\ Items(h) = [Items(t) EXCEPT ![n + 1] = Item(h, n)]
        /\ Item(h, n) \in Seq(Byte) /\ Len(Item(h, n)) = GetSize(t, n) + amt
        /\ Prefixed(Item(t, n), Item(h, n))
        /\ StartOf(h, n) = StartOf(t, n)
    BY <1>1, <1>4, <2>1, StretchedItems
  <2>3. w = Loose(p, k) /\ Rec(p) /\ Rec(t)
    BY <1>1, MoveTailLoose, WellFormedRec
  <2>4. SameIndex(t, p) /\ WellFormed(p)
    BY <1>1, <1>4, <2>1, TailShifts
  <2> HIDE DEF p, w
  <2>5. /\ AdjustTail(w, n, amt) = Loose(AdjustTail(p, n, amt), k)
        /\ Rec(AdjustTail(p, n, amt)) /\ AdjustTail(p, n, amt).data_len = p.data_len
    BY <2>3, AdjustLoose
  <2>6. g = Loose(AdjustTail(w, n, amt), amt)
    BY <1>6 DEF Stretch, Loose, w
  <2> DEFINE z == AdjustTail(p, n, amt)
  <2>7. p.data_len = t.data_len /\ p.first = t.first /\ p.count = t.count /\ p.idx = t.idx
        /\ p.index_size = t.index_size /\ p.data_size = t.data_size
    BY <2>4 DEF SameIndex
  <2>8. h = Loose(z, amt)
    <3> DEFINE x == AdjustTail(t, n, amt).idx
    <3>1. z = [p EXCEPT !.idx = z.idx]
      BY <2>3 DEF AdjustTail, Rec
    <3>2. z.idx = x
      BY <2>3, <2>7 DEF AdjustTail, Rec, DataOffset
    <3>3. h = [p EXCEPT !.first = t.first, !.count = t.count, !.data_len = t.data_len + amt, !.idx = x]
      BY DEF StretchedBy, Rebuilt, p
    <3> DEFINE len == t.data_len + amt
    <3> HIDE DEF z, x, h, len
    <3>4. h = [p EXCEPT !.first = p.first, !.count = p.count, !.data_len = len, !.idx = x]
      BY <2>7, <3>3 DEF len
    <3>5. Loose(z, amt) = [z EXCEPT !.data_len = len]
      BY <2>5, <2>7 DEF Loose, len, z
    <3>6. z = [p EXCEPT !.idx = x]
      BY <3>1, <3>2
    <3> QED BY <2>3, <3>4, <3>5, <3>6 DEF Rec
  <2> HIDE DEF z, h, g
  <2>9. g = Loose(h, k)
    <3>1. z.data_len \in Int /\ k \in Int /\ Rec(z)
      BY <1>1, <1>2, <2>5, <2>7 DEF z
    <3>2. Loose(Loose(z, k), amt) = Loose(Loose(z, amt), k)
      BY <3>1, LooseTwice
    <3> QED BY <2>5, <2>6, <2>8, <3>2 DEF z
  <2>10. Rings(g) /\ SameBut(h, g) /\ Items(g) = Items(h)
    <3>1. h.data_len + k < h.data_size
      BY <1>1, <1>2, <2>1, <2>2
    <3> QED BY <1>1, <2>2, <2>9, <3>1, LooseRings
  <2>11. Item(g, n) = Item(h, n) /\ StartOf(g, n) = StartOf(h, n) /\ g.count = h.count
         /\ g.data_size = h.data_size
    BY <2>10, SameRead DEF SameBut
  <2> QED BY <1>1, <1>2, <1>3, <2>2, <2>10, <2>11 DEF g, size
<1> QED BY <1>5, <1>6

-----------------------------------------------------------------------------
(* Keys and the map, as a matter of the items. *)

\* Bytes are numbers.
LEMMA ByteNat ==
  Byte \subseteq Nat /\ 0 \in Byte
BY HashAssumption

\* A byte of item n, wherever it lies.
LEMMA ItemByte ==
  ASSUME NEW l, Rings(l), NEW n \in 0..(l.count - 1), NEW o \in 0..(GetSize(l, n) - 1)
  PROVE  l.blob[DataOffset(l, StartOf(l, n), o)] = Item(l, n)[o + 1]
<1>1. GetSize(l, n) \in Nat
  BY RingsItems
<1>2. o + 1 \in 1..GetSize(l, n) /\ (o + 1) - 1 = o
  BY <1>1
<1> QED BY <1>2 DEF Item, ReadBytes

\* Whatever is read is made of bytes.
LEMMA AnyBytes ==
  ASSUME NEW l, WellFormed(l), NEW n \in Int, NEW o \in Int
  PROVE  l.blob[DataOffset(l, StartOf(l, n), o)] \in Byte
<1>1. StartOf(l, n) \in 0..(l.data_size - 1)
  BY StartType
<1>2. l.data_size \in Nat /\ l.data_size > 0
  BY HeaderType
<1> DEFINE x == StartOf(l, n) + o
<1>3. x \in Int
  BY <1>1, <1>2
<1> HIDE DEF x
<1>4. x % l.data_size \in 0..(l.data_size - 1)
  BY <1>2, <1>3, ModRange
<1>5. l.blob \in [0..(l.data_size - 1) -> Byte]
  BY DEF WellFormed
<1>6. DataOffset(l, StartOf(l, n), o) = x % l.data_size
  BY DEF DataOffset, x
<1> QED BY <1>4, <1>5, <1>6

\* ListHeader::copy() of any size.
LEMMA AnyRead ==
  ASSUME NEW l, WellFormed(l), NEW start \in Int, NEW size \in Int
  PROVE  ReadBytes(l, start, size) \in Seq(Byte)
<1>1. l.data_size \in Nat /\ l.data_size > 0
  BY HeaderType
<1>2. l.blob \in [0..(l.data_size - 1) -> Byte]
  BY DEF WellFormed
<1>3. ASSUME NEW k \in 1..size
      PROVE  l.blob[DataOffset(l, start, k - 1)] \in Byte
  <2> DEFINE x == start + (k - 1)
  <2>1. x \in Int
    OBVIOUS
  <2> HIDE DEF x
  <2>2. x % l.data_size \in 0..(l.data_size - 1)
    BY <1>1, <2>1, ModRange
  <2>3. DataOffset(l, start, k - 1) = x % l.data_size
    BY DEF DataOffset, x
  <2> QED BY <1>2, <2>2, <2>3
<1> DEFINE f == [k \in 1..size |-> l.blob[DataOffset(l, start, k - 1)]]
           m == IF size < 0 THEN 0 ELSE size
<1>4. f \in [1..size -> Byte]
  BY <1>3
<1>5. m \in Nat /\ 1..size = 1..m
  OBVIOUS
<1> HIDE DEF f, m
<1>6. f \in [1..m -> Byte]
  BY <1>4, <1>5
<1>7. f \in Seq(Byte)
  BY <1>5, <1>6
<1> QED BY <1>7 DEF ReadBytes, f

\* The key in the bytes of an item.
KeyIn(e) == [k \in 1..e[1] |-> e[k + 1]]

\* An item has a key, all of it.
Keyed(e) == Len(e) > 0 /\ e[1] < Len(e) /\ KeyIn(e) \in Keys

\* hverify() as a matter of the items, with the first byte of the map.
Sound(q) ==
  /\ Len(q) > 0 => (Len(q[1]) > 0 => q[1][1] = 0)
  /\ Len(q) > 1 => Len(q) <= Len(q[1])
  /\ \A i \in 2..Len(q) : Keyed(q[i]) /\ q[1][i] = Hash[KeyIn(q[i])]

\* What is read as the length and the key is the key in the item.
LEMMA KeyOfItem ==
  ASSUME NEW l, Rings(l), NEW i \in 1..(l.count - 1), GetSize(l, i) > 0
  PROVE  /\ KeyLen(l, i) = Item(l, i)[1]
         /\ KeyLen(l, i) < GetSize(l, i) => KeyOf(l, i) = KeyIn(Item(l, i))
<1> DEFINE e == Item(l, i)
           s == StartOf(l, i)
           d == l.data_size
<1>1. /\ WellFormed(l) /\ l.count \in Nat /\ i \in 0..(l.count - 1) /\ i \in Int
      /\ d \in Nat /\ d > 0 /\ GetSize(l, i) \in Nat /\ e \in Seq(Byte)
      /\ GetSize(l, i) = Len(e)
  BY RingsItems, HeaderType
<1>2. s \in 0..(d - 1)
  BY <1>1, StartType
<1>3. s % d = s /\ s + 0 = s
  <2> HIDE DEF s, d
  <2>1. s % d = s
    BY <1>1, <1>2, ModSmall
  <2>2. s \in Int
    BY <1>1, <1>2
  <2> QED BY <2>1, <2>2
<1>4. l.blob[DataOffset(l, s, 0)] = e[0 + 1]
  <2> DEFINE zero == 0
  <2>1. zero \in 0..(GetSize(l, i) - 1)
    BY <1>1
  <2> HIDE DEF zero
  <2>2. l.blob[DataOffset(l, s, zero)] = e[zero + 1]
    BY <1>1, <2>1, ItemByte
  <2> QED BY <2>2 DEF zero
<1>5. KeyLen(l, i) = e[1]
  BY <1>3, <1>4 DEF KeyLen, DataOffset
<1>6. ASSUME KeyLen(l, i) < GetSize(l, i)
      PROVE  KeyOf(l, i) = KeyIn(e)
  <2> HIDE DEF e
  <2>0. e[1] \in Byte
    BY <1>1
  <2>1. e[1] \in Nat
    BY <2>0, ByteNat
  <2>2. ASSUME NEW k \in 1..e[1]
        PROVE  l.blob[DataOffset(l, DataOffset(l, s, 1), k - 1)] = e[k + 1]
    <3>1. k \in 0..(GetSize(l, i) - 1)
      BY <1>1, <1>5, <1>6, <2>1
    <3>2. l.blob[DataOffset(l, s, k)] = e[k + 1]
      BY <1>1, <3>1, ItemByte DEF e
    <3>3. GetSize(l, i) <= l.data_len /\ l.data_len < d /\ l.data_len \in Nat
      BY <1>1, RingsItems
    <3>4. k \in 0..(d - 1) /\ d > 1
      BY <1>1, <3>1, <3>3
    <3> DEFINE one == 1
               j == k - 1
    <3>5. one \in (1 - d)..(d - 1) /\ j \in Int /\ 0 <= one + j /\ one + j < d /\ one + j = k
      BY <1>1, <3>4
    <3> HIDE DEF one, j
    <3>6. (((s + one) % d) + j) % d = (s + (one + j)) % d
      BY <1>1, <1>2, <3>5, ModAdd
    <3>7. DataOffset(l, DataOffset(l, s, one), j) = DataOffset(l, s, k)
      BY <3>5, <3>6 DEF DataOffset
    <3> QED BY <3>2, <3>7 DEF one, j
  <2> QED BY <1>5, <2>2 DEF KeyOf, KeyIn, ReadBytes
<1> QED BY <1>5, <1>6

\* The byte of the map that stands for item i.
LEMMA MapByteItem ==
  ASSUME NEW l, Rings(l), l.count > 0, NEW i \in 0..(MapSize(l) - 1)
  PROVE  MapByte(l, i) = Items(l)[1][i + 1] /\ MapSize(l) = Len(Items(l)[1])
<1> DEFINE zero == 0
<1>1. zero \in 0..(l.count - 1) /\ zero + 1 = 1
  BY RingsItems
<1> HIDE DEF zero
<1>2. Items(l)[zero + 1] = Item(l, zero) /\ GetSize(l, zero) = Len(Item(l, zero))
  BY <1>1, RingsItems
<1>3. i \in 0..(GetSize(l, zero) - 1)
  BY DEF MapSize, zero
<1>4. l.blob[DataOffset(l, StartOf(l, zero), i)] = Item(l, zero)[i + 1]
  BY <1>1, <1>3, ItemByte
<1> QED BY <1>1, <1>2, <1>4 DEF MapByte, MapSize, zero

\* The size of the map is that of the first item.
LEMMA MapSizeItem ==
  ASSUME NEW l, Rings(l), l.count > 0
  PROVE  /\ MapSize(l) \in Nat /\ MapSize(l) = Len(Items(l)[1])
         /\ Items(l)[1] = Item(l, 0) /\ Items(l)[1] \in Seq(Byte)
<1> DEFINE zero == 0
<1>1. zero \in 0..(l.count - 1) /\ zero + 1 = 1
  BY RingsItems
<1> HIDE DEF zero
<1>2. /\ Items(l)[zero + 1] = Item(l, zero) /\ Item(l, zero) \in Seq(Byte)
      /\ GetSize(l, zero) = Len(Item(l, zero))
  BY <1>1, RingsItems
<1> QED BY <1>1, <1>2 DEF MapSize, zero

\* A hash whose items are sound passes hverify().
LEMMA SoundVerified ==
  ASSUME NEW l, Rings(l), Sound(Items(l))
  PROVE  Verified(l)
<1> SUFFICES ASSUME l.count > 1 PROVE Verified(l)
  BY DEF Verified
<1> DEFINE q == Items(l)
<1>1. /\ l.count \in Nat /\ q \in Seq(Seq(Byte)) /\ Len(q) = l.count
      /\ \A n \in 0..(l.count - 1) : /\ q[n + 1] = Item(l, n) /\ Item(l, n) \in Seq(Byte)
                                     /\ GetSize(l, n) = Len(Item(l, n))
  BY RingsItems
<1>2. MapSize(l) \in Nat /\ MapSize(l) = Len(q[1])
  BY <1>1, MapSizeItem
<1> HIDE DEF q
<1>3. Len(q) <= Len(q[1]) /\ \A i \in 2..Len(q) : Keyed(q[i]) /\ q[1][i] = Hash[KeyIn(q[i])]
  BY <1>1 DEF Sound, q
<1>4. ASSUME NEW i \in 1..(l.count - 1)
      PROVE  GetSize(l, i) > KeyLen(l, i) /\ KeyOf(l, i) \in Keys /\ MapByte(l, i) = Hash[KeyOf(l, i)]
  <2>1. i + 1 \in 2..Len(q) /\ i \in 0..(l.count - 1) /\ i \in 0..(MapSize(l) - 1)
    BY SMTT(30), <1>1, <1>2, <1>3
  <2>2. q[i + 1] = Item(l, i) /\ GetSize(l, i) = Len(Item(l, i))
    BY <1>1, <2>1
  <2>3. Keyed(Item(l, i)) /\ q[1][i + 1] = Hash[KeyIn(Item(l, i))]
    BY <1>3, <2>1, <2>2
  <2>4. GetSize(l, i) > 0
    BY <2>2, <2>3 DEF Keyed
  <2>5. KeyLen(l, i) = Item(l, i)[1]
    BY <1>1, <2>1, <2>4, KeyOfItem
  <2>6. KeyLen(l, i) < GetSize(l, i) => KeyOf(l, i) = KeyIn(Item(l, i))
    BY <1>1, <2>1, <2>4, KeyOfItem
  <2>7. MapByte(l, i) = q[1][i + 1]
    <3>1. l.count > 0
      BY <1>1
    <3>2. MapByte(l, i) = Items(l)[1][i + 1]
      BY <2>1, <3>1, MapByteItem
    <3> QED BY <3>2 DEF q
  <2>8. Item(l, i)[1] < Len(Item(l, i)) /\ KeyIn(Item(l, i)) \in Keys
    BY <2>3 DEF Keyed
  <2>9. KeyLen(l, i) < GetSize(l, i)
    BY <2>2, <2>5, <2>8
  <2>10. GetSize(l, i) \in Int /\ KeyLen(l, i) \in Int
    <3> DEFINE e == Item(l, i)
    <3>2. e \in Seq(Byte) /\ Len(e) > 0 /\ GetSize(l, i) = Len(e) /\ KeyLen(l, i) = e[1]
      BY <1>1, <2>1, <2>2, <2>4, <2>5
    <3> HIDE DEF e
    <3>3. e[1] \in Byte /\ Len(e) \in Int
      BY <3>2
    <3>4. e[1] \in Nat
      BY <3>3, ByteNat
    <3> QED BY <3>2, <3>3, <3>4
  <2> QED BY <2>3, <2>6, <2>7, <2>8, <2>9, <2>10
<1> QED BY <1>1, <1>2, <1>3, <1>4 DEF Verified

\* lverify() adds up the bytes of the items: it misses those that were dropped.
LEMMA DroppedMissed ==
  ASSUME NEW l, Rings(l)
  PROVE  LVerified(l) <=> LostBytes(l) = 0
<1>1. PICK t, k : /\ WellFormed(t) /\ Layout(t) /\ k \in Nat
                  /\ t.data_len + k < t.data_size
                  /\ SameBut(t, l) /\ l.data_len = t.data_len + k
  BY RingsLoose
<1>2. LVerified(t) /\ t.data_len \in Nat /\ Distance(t, t.count) = t.data_len
  BY <1>1, LayoutVerified, LayoutElim, HeaderType
<1>3. LostBytes(l) = k
  <2>1. Distance(l, l.count) = t.data_len
    BY <1>1, <1>2, SameRead DEF SameBut
  <2> QED BY <1>1, <1>2, <2>1 DEF LostBytes
<1>4. SumOfSizes(l) = t.data_len
  <2>1. l.count = t.count /\ \A n : GetSize(l, n) = GetSize(t, n)
    BY <1>1, SameRead DEF SameBut
  <2> QED BY <1>1, <2>1, SumIsDistance
<1>5. /\ l.count < l.index_size
      /\ \A n \in 0..(l.count - 1) :
            /\ StartOf(l, n) < l.data_size
            /\ EndOf(l, n + 1) <= l.data_size
            /\ GetSize(l, n) < l.data_size
  <2>1. \A n : StartOf(l, n) = StartOf(t, n) /\ EndOf(l, n) = EndOf(t, n) /\ GetSize(l, n) = GetSize(t, n)
    BY <1>1, SameRead
  <2> QED BY <1>1, <1>2, <2>1 DEF LVerified, SameBut
<1> QED BY <1>1, <1>2, <1>3, <1>4, <1>5 DEF LVerified

\* With items in order, hverify() fails only when bytes were dropped or when
\* there is a map of no bytes and nothing else.
LEMMA VerifyFails ==
  ASSUME NEW l, Rings(l), Verified(l)
  PROVE  Tallied(l) <=> Accounted(l)
<1>1. l.count \in Nat /\ (l.count > 0 => MapSize(l) \in Nat)
  BY RingsItems, MapSizeItem
<1>2. l.count > 0 => (l.count <= MapSize(l) <=> MapSize(l) > 0)
  <2>1. CASE l.count > 1
    BY <1>1, <2>1 DEF Verified
  <2>2. CASE l.count <= 1
    BY <1>1, <2>2
  <2> QED BY <1>1, <2>1, <2>2
<1> QED BY <1>2, DroppedMissed DEF Tallied, Accounted

\* A longer map that begins like the old one does as well.
LEMMA SoundGrown ==
  ASSUME NEW q \in Seq(Seq(Byte)), Sound(q), Len(q) > 0, NEW e, NEW need \in Nat \ {0},
         Grown(q[1], e, need)
  PROVE  Sound([q EXCEPT ![1] = e]) /\ [q EXCEPT ![1] = e] \in Seq(Seq(Byte))
<1> DEFINE r == [q EXCEPT ![1] = e]
           v == q[1]
<1>1. v \in Seq(Byte) /\ Len(v) \in Nat /\ Len(q) \in Nat /\ DOMAIN q = 1..Len(q)
  OBVIOUS
<1>2. /\ e \in Seq(Byte) /\ Len(e) = Len(v) + need
      /\ \A k \in 1..Len(v) : e[k] = v[k]
      /\ Len(v) = 0 => e[1] = 0
  BY DEF Grown
<1>3. r \in Seq(Seq(Byte)) /\ Len(r) = Len(q) /\ r[1] = e /\ \A i \in 2..Len(q) : r[i] = q[i]
  BY <1>1, <1>2
<1> HIDE DEF r, v
<1>4. e[1] = 0
  BY <1>1, <1>2 DEF Sound, v
<1>5. Len(q) > 1 => Len(q) <= Len(e)
  BY <1>1, <1>2 DEF Sound, v
<1>6. ASSUME NEW i \in 2..Len(q)
      PROVE  Keyed(r[i]) /\ r[1][i] = Hash[KeyIn(r[i])]
  <2>1. Keyed(q[i]) /\ v[i] = Hash[KeyIn(q[i])]
    BY DEF Sound, v
  <2>2. i \in 1..Len(v)
    BY <1>1 DEF Sound, v
  <2> QED BY <1>2, <1>3, <2>1, <2>2
<1>7. Sound(r)
  BY <1>1, <1>3, <1>4, <1>5, <1>6 DEF Sound
<1> QED BY <1>3, <1>7 DEF r

\* So does one in which a byte beyond those of the items is set.
LEMMA SoundMarked ==
  ASSUME NEW q \in Seq(Seq(Byte)), Sound(q), Len(q) > 0, Len(q[1]) > Len(q), NEW h \in Byte
  PROVE  LET r == [q EXCEPT ![1] = Patch(q[1], Len(q), << h >>)]
         IN  /\ r \in Seq(Seq(Byte)) /\ Sound(r) /\ Len(r) = Len(q)
             /\ Len(r[1]) = Len(q[1]) /\ r[1][Len(q) + 1] = h
<1> DEFINE v == q[1]
           o == Len(q)
           w == << h >>
           e == Patch(v, o, w)
           r == [q EXCEPT ![1] = e]
<1>1. v \in Seq(Byte) /\ Len(v) \in Nat /\ Len(q) \in Nat /\ DOMAIN q = 1..Len(q)
  OBVIOUS
<1>2. w \in Seq(Byte) /\ Len(w) = 1 /\ w[1] = h /\ o \in Nat
  OBVIOUS
<1> HIDE DEF v, o, w
<1>3. /\ e \in Seq(Byte) /\ Len(e) = Len(v)
      /\ \A k \in 1..Len(v) : e[k] = IF o < k /\ k <= o + Len(w) THEN w[k - o] ELSE v[k]
  BY <1>1, <1>2, PatchType
<1> HIDE DEF e
<1>4. r \in Seq(Seq(Byte)) /\ Len(r) = Len(q) /\ r[1] = e /\ \A i \in 2..Len(q) : r[i] = q[i]
  BY <1>1, <1>3
<1> HIDE DEF r
<1>5. Len(v) > Len(q) /\ o = Len(q)
  BY DEF v, o
<1>6. e[o + 1] = h
  <2>1. o + 1 \in 1..Len(v) /\ (o + 1) - o = 1
    BY <1>1, <1>5
  <2> QED BY <1>2, <1>3, <2>1
<1>7. \A k \in 1..Len(q) : e[k] = v[k]
  BY <1>1, <1>2, <1>3, <1>5
<1>8. e[1] = 0
  BY <1>1, <1>5, <1>7 DEF Sound, v
<1>9. ASSUME NEW i \in 2..Len(q)
      PROVE  Keyed(r[i]) /\ r[1][i] = Hash[KeyIn(r[i])]
  <2>1. Keyed(q[i]) /\ v[i] = Hash[KeyIn(q[i])]
    BY DEF Sound, v
  <2> QED BY <1>1, <1>4, <1>7, <2>1
<1>10. Sound(r)
  BY <1>1, <1>3, <1>4, <1>5, <1>8, <1>9 DEF Sound
<1> QED BY <1>3, <1>4, <1>5, <1>6, <1>10 DEF r, e, v, o, w

\* An item with a key of the same byte in the place of another.
LEMMA SoundItem ==
  ASSUME NEW q \in Seq(Seq(Byte)), Sound(q), NEW i \in 2..Len(q), NEW e \in Seq(Byte),
         Keyed(e), q[1][i] = Hash[KeyIn(e)]
  PROVE  Sound([q EXCEPT ![i] = e]) /\ [q EXCEPT ![i] = e] \in Seq(Seq(Byte))
<1> DEFINE r == [q EXCEPT ![i] = e]
<1>1. /\ r \in Seq(Seq(Byte)) /\ Len(r) = Len(q) /\ r[1] = q[1] /\ Len(q) \in Nat
      /\ r[i] = e /\ \A j \in 2..Len(q) : j # i => r[j] = q[j]
  OBVIOUS
<1> HIDE DEF r
<1>2. Sound(r)
  BY <1>1 DEF Sound
<1> QED BY <1>1, <1>2 DEF r

\* The same bytes up to the end of the key.
LEMMA SameKey ==
  ASSUME NEW e \in Seq(Byte), NEW g \in Seq(Byte), Keyed(e), Len(g) > e[1],
         \A k \in 1..(e[1] + 1) : g[k] = e[k]
  PROVE  Keyed(g) /\ KeyIn(g) = KeyIn(e)
<1>1. e[1] \in Nat
  <2>1. e[1] \in Byte
    BY DEF Keyed
  <2> QED BY <2>1, ByteNat
<1>2. g[1] = e[1]
  BY <1>1
<1>3. \A k \in 1..e[1] : k + 1 \in 1..(e[1] + 1)
  BY <1>1
<1>4. KeyIn(g) = KeyIn(e)
  BY <1>2, <1>3 DEF KeyIn
<1>5. Len(g) \in Nat
  OBVIOUS
<1> QED BY <1>1, <1>2, <1>4, <1>5 DEF Keyed

\* A new item, for which the map has the byte.
LEMMA SoundAppend ==
  ASSUME NEW q \in Seq(Seq(Byte)), Sound(q), Len(q) > 0, Len(q[1]) > Len(q),
         NEW e \in Seq(Byte), Keyed(e), q[1][Len(q) + 1] = Hash[KeyIn(e)]
  PROVE  Sound(Append(q, e)) /\ Append(q, e) \in Seq(Seq(Byte))
<1> DEFINE r == Append(q, e)
<1>1. /\ r \in Seq(Seq(Byte)) /\ Len(r) = Len(q) + 1 /\ r[1] = q[1] /\ Len(q) \in Nat
      /\ r[Len(q) + 1] = e /\ \A j \in 2..Len(q) : r[j] = q[j]
  OBVIOUS
<1>0. Len(q[1]) \in Nat
  OBVIOUS
<1> HIDE DEF r
<1>2. ASSUME NEW i \in 2..Len(r)
      PROVE  Keyed(r[i]) /\ r[1][i] = Hash[KeyIn(r[i])]
  <2>1. CASE i = Len(q) + 1
    <3>1. r[i] = e /\ r[1][i] = q[1][Len(q) + 1]
      BY <1>1, <2>1
    <3> QED BY <3>1
  <2>2. CASE i # Len(q) + 1
    <3>1. i \in 2..Len(q)
      BY <1>1, <2>2
    <3>2. r[i] = q[i] /\ r[1][i] = q[1][i]
      BY <1>1, <3>1
    <3> QED BY <3>1, <3>2 DEF Sound
  <2> QED BY <2>1, <2>2
<1>3. Sound(r)
  BY <1>0, <1>1, <1>2 DEF Sound
<1> QED BY <1>1, <1>3 DEF r

\* The items from c on cut off.
LEMMA SoundCut ==
  ASSUME NEW q \in Seq(Seq(Byte)), Sound(q), NEW c \in 0..Len(q)
  PROVE  Sound(SubSeq(q, 1, c))
<1> DEFINE r == SubSeq(q, 1, c)
<1>1. Len(r) = c /\ (\A j \in 1..c : r[j] = q[j]) /\ Len(q) \in Nat
  OBVIOUS
<1>2. c > 0 => q[1] \in Seq(Byte) /\ Len(q[1]) \in Nat
  BY <1>1
<1> HIDE DEF r
<1>4. c > 0 => r[1] = q[1]
  BY <1>1
<1>5. c > 0 => (Len(r[1]) > 0 => r[1][1] = 0)
  BY <1>1, <1>4 DEF Sound
<1>6. c > 1 => c <= Len(r[1])
  BY <1>1, <1>2, <1>4 DEF Sound
<1>7. ASSUME NEW i \in 2..c
      PROVE  Keyed(r[i]) /\ r[1][i] = Hash[KeyIn(r[i])]
  <2>1. i \in 2..Len(q) /\ r[i] = q[i] /\ r[1] = q[1]
    BY <1>1
  <2> QED BY <2>1 DEF Sound
<1>3. Sound(r)
  BY <1>1, <1>5, <1>6, <1>7 DEF Sound
<1> QED BY <1>3 DEF r

\* The map after hash_delete().
LEMMA SoundRemove ==
  ASSUME NEW q \in Seq(Seq(Byte)), Sound(q), NEW i \in 2..Len(q), NEW e \in Seq(Byte),
         Len(e) = Len(q[1]), \A k \in 1..(i - 1) : e[k] = q[1][k],
         \A k \in i..(Len(q) - 1) : e[k] = q[1][k + 1]
  PROVE  Sound([RemoveAt(q, i) EXCEPT ![1] = e])
<1> DEFINE p == RemoveAt(q, i)
           r == [p EXCEPT ![1] = e]
<1>1. Len(q) \in Nat /\ q[1] \in Seq(Byte) /\ Len(q[1]) \in Nat /\ i \in 1..Len(q)
  OBVIOUS
<1>2. /\ p \in Seq(Seq(Byte)) /\ Len(p) = Len(q) - 1
      /\ \A n \in 1..(Len(q) - 1) : p[n] = IF n < i THEN q[n] ELSE q[n + 1]
  BY <1>1, RemoveAtElements
<1> HIDE DEF p
<1>3. DOMAIN p = 1..Len(p) /\ Len(p) >= 1
  BY <1>1, <1>2
<1>4. Len(r) = Len(q) - 1 /\ r[1] = e /\ \A n \in 2..(Len(q) - 1) : r[n] = p[n]
  BY <1>1, <1>2, <1>3
<1> HIDE DEF r
<1>5. ASSUME NEW n \in 2..(Len(q) - 1)
      PROVE  Keyed(r[n]) /\ e[n] = Hash[KeyIn(r[n])]
  <2>1. CASE n < i
    <3>1. n \in 2..Len(q) /\ r[n] = q[n] /\ e[n] = q[1][n]
      BY SMTT(30), <1>1, <1>2, <1>4, <2>1
    <3> QED BY <3>1 DEF Sound
  <2>2. CASE n >= i
    <3>1. n + 1 \in 2..Len(q) /\ r[n] = q[n + 1] /\ e[n] = q[1][n + 1]
      BY <1>1, <1>2, <1>4, <2>2
    <3> QED BY <3>1 DEF Sound
  <2> QED BY <2>1, <2>2, <1>1
<1>6. Len(e) > 0 => e[1] = 0
  BY <1>1 DEF Sound
<1>7. Len(q) <= Len(q[1])
  BY <1>1 DEF Sound
<1>8. Sound(r)
  BY <1>1, <1>4, <1>5, <1>6, <1>7 DEF Sound
<1> QED BY <1>8 DEF r, p

\* What is assumed of keys and values, as strings of bytes.
LEMMA KeyType ==
  ASSUME NEW key \in Keys
  PROVE  key \in Seq(Byte) /\ Len(key) \in Nat \ {0} /\ Len(key) \in Byte /\ Hash[key] \in Byte
<1>1. key \in Seq(Byte) /\ key # <<>> /\ Len(key) \in Byte /\ Hash[key] \in Byte
  BY HashAssumption
<1>2. Len(key) \in Nat /\ (Len(key) = 0 => key = <<>>)
  BY <1>1
<1> QED BY <1>1, <1>2

\* What search finds is an item with the byte of the key, and a key as long;
\* never the map.
LEMMA LocateFound ==
  ASSUME NEW l, Rings(l), Sound(Items(l)), NEW key \in Keys
  PROVE  LET i == Locate(l, key)
         IN  i = l.count \/ /\ i \in 1..(l.count - 1) /\ i < MapSize(l)
                            /\ Items(l)[1][i + 1] = Hash[key]
                            /\ GetSize(l, i) >= Len(key) + 1
                            /\ Item(l, i)[1] = Len(key)
<1> DEFINE i == Locate(l, key)
           at == {n \in Chain(l, Hash[key]) : MatchKey(l, key, n)}
           n0 == Len(key)
<1>1. i = IF l.count = 0 \/ at = {} THEN l.count ELSE Min(at)
  BY DEF Locate, LocateBy
<1> HIDE DEF i
<1> SUFFICES ASSUME l.count # 0, at # {}
             PROVE  /\ i \in 1..(l.count - 1) /\ i < MapSize(l)
                    /\ Items(l)[1][i + 1] = Hash[key]
                    /\ GetSize(l, i) >= n0 + 1
                    /\ Item(l, i)[1] = n0
  BY <1>1 DEF i
<1>2. l.count \in Nat /\ l.count > 0
  BY RingsItems
<1>3. /\ MapSize(l) \in Nat /\ MapSize(l) = Len(Items(l)[1])
      /\ Items(l)[1] = Item(l, 0) /\ Items(l)[1] \in Seq(Byte)
  BY <1>2, MapSizeItem
<1>4. MapLen(l) \in Nat /\ MapLen(l) <= l.count /\ MapLen(l) <= MapSize(l)
  BY <1>2, <1>3 DEF MapLen, Smaller
<1>5. at \in SUBSET Nat
  BY <1>4 DEF Chain
<1>6. Min(at) \in at
  BY <1>5, LeastElement
<1>7. i \in 0..(MapLen(l) - 1) /\ MapByte(l, i) = Hash[key] /\ MatchKey(l, key, i)
  BY <1>1, <1>6 DEF Chain
<1>8. i \in 0..(l.count - 1) /\ i \in 0..(MapSize(l) - 1) /\ i \in Nat
  BY <1>2, <1>3, <1>4, <1>7
<1>9. GetSize(l, i) >= n0 + 1 /\ l.blob[StartOf(l, i)] = n0
  BY <1>7 DEF MatchKey
<1>10. n0 \in Nat \ {0}
  BY KeyType
<1>11. Item(l, i) \in Seq(Byte) /\ GetSize(l, i) = Len(Item(l, i)) /\ WellFormed(l)
  BY <1>8, RingsItems
<1> HIDE DEF n0
<1>12. Item(l, i)[1] = n0
  <2> DEFINE zero == 0
             s == StartOf(l, i)
             d == l.data_size
  <2>0. GetSize(l, i) \in Nat
    BY <1>11
  <2>1. zero \in 0..(GetSize(l, i) - 1)
    BY <1>9, <1>10, <2>0
  <2>2. s \in 0..(d - 1) /\ d \in Nat /\ d > 0
    <3>1. i \in Int
      BY <1>8
    <3>2. s \in 0..(d - 1)
      BY <1>11, <3>1, StartType
    <3>3. d \in Nat /\ d > 0
      BY <1>11, HeaderType
    <3> QED BY <3>2, <3>3
  <2> HIDE DEF zero
  <2>3. l.blob[DataOffset(l, StartOf(l, i), zero)] = Item(l, i)[zero + 1]
    BY <1>8, <2>1, ItemByte
  <2> HIDE DEF s, d
  <2>4. s % d = s
    BY <2>2, ModSmall
  <2>5. s + zero = s
    BY <2>2 DEF zero
  <2>6. DataOffset(l, StartOf(l, i), zero) = StartOf(l, i)
    BY <2>4, <2>5 DEF DataOffset, s, d
  <2>7. Item(l, i)[zero + 1] = n0
    BY <1>9, <2>3, <2>6
  <2> QED BY <2>7 DEF zero
<1>13. MapByte(l, i) = Items(l)[1][i + 1]
  BY <1>2, <1>8, MapByteItem
<1>14. i # 0
  <2> SUFFICES ASSUME i = 0 PROVE FALSE
    OBVIOUS
  <2>1. Len(Items(l)) > 0
    BY <1>2, RingsItems
  <2>2. Len(Items(l)[1]) > 0
    BY <1>3, <1>8
  <2>3. Items(l)[1][1] = 0
    BY <2>1, <2>2 DEF Sound
  <2>4. Item(l, i)[1] = 0
    BY <1>3, <2>3
  <2> QED BY <1>10, <1>12, <2>4
<1>15. i \in 1..(l.count - 1) /\ i < MapSize(l)
  BY <1>2, <1>3, <1>8, <1>14
<1> QED BY <1>7, <1>9, <1>12, <1>13, <1>15

\* Two strings, one after the other.
LEMMA Joined ==
  ASSUME NEW S, NEW a \in Seq(S), NEW b \in Seq(S)
  PROVE  /\ (a \o b) \in Seq(S) /\ Len(a \o b) = Len(a) + Len(b)
         /\ \A k \in 1..(Len(a) + Len(b)) :
              (a \o b)[k] = IF k <= Len(a) THEN a[k] ELSE b[k - Len(a)]
OBVIOUS

\* What an item is written as.
LEMMA EntryType ==
  ASSUME NEW key \in Keys, NEW val \in Seq(Byte)
  PROVE  LET e == Entry(key, val)
         IN  /\ e \in Seq(Byte) /\ Len(e) = Len(key) + Len(val) + 1
             /\ e[1] = Len(key) /\ Keyed(e) /\ KeyIn(e) = key
<1> DEFINE n == Len(key)
           m == Len(val)
           h == << n >>
           e == Entry(key, val)
<1>1. key \in Seq(Byte) /\ n \in Nat \ {0} /\ n \in Byte
  BY KeyType
<1>2. m \in Nat
  OBVIOUS
<1> HIDE DEF n, m
<1>3. h \in Seq(Byte) /\ Len(h) = 1 /\ h[1] = n
  BY <1>1
<1> HIDE DEF h
<1>4. e = (h \o key) \o val
  BY DEF Entry, h, n
<1>5. /\ (h \o key) \in Seq(Byte) /\ Len(h \o key) = 1 + n
      /\ \A k \in 1..(1 + n) : (h \o key)[k] = IF k <= 1 THEN h[k] ELSE key[k - 1]
  <2>1. n = Len(key) /\ Len(h) = 1 /\ 1 + n = Len(h) + Len(key)
    BY <1>3 DEF n
  <2>2. (h \o key) \in Seq(Byte) /\ Len(h \o key) = Len(h) + Len(key)
    BY <1>1, <1>3, Joined
  <2>3. ASSUME NEW k \in 1..(Len(h) + Len(key))
        PROVE  (h \o key)[k] = IF k <= Len(h) THEN h[k] ELSE key[k - Len(h)]
    BY <1>1, <1>3, Joined
  <2> QED BY <1>1, <2>1, <2>2, <2>3
<1> DEFINE p == h \o key
<1> HIDE DEF p
<1>6. p \in Seq(Byte) /\ Len(p) = 1 + n
  BY <1>5 DEF p
<1>7. /\ (p \o val) \in Seq(Byte) /\ Len(p \o val) = (1 + n) + m
      /\ \A k \in 1..(1 + n) : (p \o val)[k] = p[k]
  BY <1>1, <1>2, <1>6 DEF m
<1>8. e = p \o val
  BY <1>4 DEF p
<1> HIDE DEF e
<1>9. e \in Seq(Byte) /\ Len(e) = (1 + n) + m
  BY <1>7, <1>8
<1>10. \A k \in 1..(1 + n) : e[k] = IF k <= 1 THEN h[k] ELSE key[k - 1]
  BY <1>5, <1>7, <1>8 DEF p
<1>11. e[1] = n
  BY <1>1, <1>3, <1>10
<1>12. KeyIn(e) = key
  <2>1. KeyIn(e) = [k \in 1..n |-> e[k + 1]]
    BY <1>11 DEF KeyIn
  <2>2. ASSUME NEW k \in 1..n PROVE e[k + 1] = key[k]
    <3>1. k + 1 \in 1..(1 + n) /\ ~ (k + 1 <= 1) /\ (k + 1) - 1 = k
      BY <1>1
    <3> QED BY <1>10, <3>1
  <2>3. key = [k \in 1..n |-> key[k]]
    BY <1>1 DEF n
  <2> QED BY <2>1, <2>2, <2>3
<1>13. Keyed(e)
  BY <1>1, <1>2, <1>9, <1>11, <1>12 DEF Keyed
<1> QED BY <1>1, <1>2, <1>9, <1>11, <1>12, <1>13 DEF e, n, m

-----------------------------------------------------------------------------
(* The operations on a hash. *)

\* A hash with sound items, whose key is in the map.
Proper(l) == Rings(l) /\ Sound(Items(l))

\* The map before a new item is marked in it.
LEMMA WithMapRoomProper ==
  ASSUME NEW l, Proper(l), l.count > 0, HasMapRoom(l)
  PROVE  LET b == WithMapRoom(l)
         IN  Proper(b) /\ b.count = l.count /\ b.count < MapSize(b)
<1>1. /\ Rings(l) /\ Sound(Items(l)) /\ Items(l) \in Seq(Seq(Byte)) /\ Len(Items(l)) = l.count
      /\ l.count \in Nat
  BY RingsItems DEF Proper
<1>2. MapSize(l) \in Nat /\ Items(l)[1] = Item(l, 0)
  BY <1>1, MapSizeItem
<1>3. CASE l.count < MapSize(l)
  <2>1. WithMapRoom(l) = l
    BY <1>3 DEF WithMapRoom
  <2> QED BY <1>3, <2>1
<1>4. CASE ~ (l.count < MapSize(l))
  <2> DEFINE g == ResizeHash(l)
             need == MapGrowth(l)
  <2>1. WithMapRoom(l) = g /\ ~ DataFull(l, need)
    BY <1>4 DEF WithMapRoom, HasMapRoom
  <2>2. l.count >= MapSize(l)
    BY <1>1, <1>2, <1>4
  <2>3. need \in Nat \ {0}
    BY <1>1, <1>2, <2>2, MapGrows DEF MapGrowth
  <2>4. /\ Rings(g) /\ g.count = l.count
        /\ Items(g) = [Items(l) EXCEPT ![1] = Item(g, 0)]
        /\ Grown(Item(l, 0), Item(g, 0), need)
        /\ Len(Item(g, 0)) > l.count
    BY <1>1, <2>1, <2>2, ResizeRings
  <2> HIDE DEF g, need
  <2>5. Sound(Items(g))
    <3> DEFINE q == Items(l)
               e == Item(g, 0)
    <3>1. q \in Seq(Seq(Byte)) /\ Sound(q) /\ Len(q) > 0 /\ Grown(q[1], e, need)
      BY <1>1, <1>2, <2>4
    <3>2. Items(g) = [q EXCEPT ![1] = e]
      BY <2>4
    <3> HIDE DEF q, e
    <3>3. Sound([q EXCEPT ![1] = e])
      BY <2>3, <3>1, SoundGrown
    <3> QED BY <3>2, <3>3
  <2>6. MapSize(g) = Len(Items(g)[1]) /\ Items(g)[1] = Item(g, 0)
    BY <2>4, MapSizeItem
  <2> QED BY <2>1, <2>4, <2>5, <2>6 DEF Proper
<1> QED BY <1>3, <1>4

\* The byte of a new item is set.
LEMMA SetMapByteProper ==
  ASSUME NEW l, Proper(l), l.count > 0, l.count < MapSize(l), NEW h \in Byte
  PROVE  LET c == SetMapByte(l, l.count, h)
         IN  /\ Proper(c) /\ c.count = l.count
             /\ Len(Items(c)[1]) > l.count /\ Items(c)[1][l.count + 1] = h
<1> DEFINE o == l.count
           v == << h >>
           s == DataOffset(l, StartOf(l, 0), o)
           c == SetMapByte(l, l.count, h)
           zero == 0
<1>1. /\ WellFormed(l) /\ Rings(l) /\ Sound(Items(l)) /\ Items(l) \in Seq(Seq(Byte))
      /\ Len(Items(l)) = l.count /\ o \in Nat
  BY RingsItems DEF Proper
<1>2. /\ MapSize(l) \in Nat /\ MapSize(l) = Len(Items(l)[1]) /\ Items(l)[1] = Item(l, 0)
  BY <1>1, MapSizeItem
<1>3. v \in Seq(Byte) /\ Len(v) = 1
  OBVIOUS
<1>4. zero \in 0..(l.count - 1) /\ zero + 1 = 1
  BY <1>1
<1>5. s \in 0..(l.data_size - 1)
  <2>1. StartOf(l, 0) \in 0..(l.data_size - 1) /\ l.data_size \in Nat /\ l.data_size > 0
    BY SMTT(30), <1>1, StartType, HeaderType
  <2> DEFINE x == StartOf(l, 0) + o
  <2>2. x \in Int
    BY <1>1, <2>1
  <2> HIDE DEF x
  <2>3. x % l.data_size \in 0..(l.data_size - 1)
    BY <2>1, <2>2, ModRange
  <2> QED BY <2>3 DEF DataOffset, x
<1>6. c = CopyInto(l, v, s)
  <2>1. c = [l EXCEPT !.blob[s] = h]
    BY DEF SetMapByte
  <2> HIDE DEF s, c
  <2> QED BY <1>1, <1>5, <2>1, OneByte
<1>7. o + Len(v) <= GetSize(l, 0)
  BY <1>1, <1>2, <1>3 DEF MapSize
<1> HIDE DEF zero, v, o
<1>8. LET g == CopyInto(l, v, DataOffset(l, StartOf(l, zero), o))
      IN  /\ Rings(g) /\ SameIndex(l, g)
          /\ Items(g) = [Items(l) EXCEPT ![zero + 1] = Patch(Item(l, zero), o, v)]
  <2>1. o + Len(v) <= GetSize(l, zero) /\ o \in Nat
    BY <1>1, <1>7 DEF zero
  <2> HIDE DEF s, c
  <2>2. Rings(l) /\ zero \in 0..(l.count - 1) /\ v \in Seq(Byte)
    BY <1>1, <1>3, <1>4
  <2> QED BY <2>1, <2>2, PatchRings
<1>9. /\ Rings(c) /\ c.count = l.count
      /\ Items(c) = [Items(l) EXCEPT ![1] = Patch(Items(l)[1], Len(Items(l)), << h >>)]
  BY <1>1, <1>2, <1>4, <1>6, <1>8 DEF zero, s, v, o, SameIndex
<1> DEFINE q == Items(l)
<1>10. Len(q) > 0 /\ Len(q[1]) > Len(q)
  BY <1>1, <1>2
<1> HIDE DEF q, c
<1>11. q \in Seq(Seq(Byte)) /\ Sound(q) /\ Len(q) = l.count /\ Len(q[1]) \in Nat
  BY <1>1, <1>2 DEF q
<1>12. LET r == [q EXCEPT ![1] = Patch(q[1], Len(q), << h >>)]
       IN  /\ r \in Seq(Seq(Byte)) /\ Sound(r) /\ Len(r) = Len(q)
           /\ Len(r[1]) = Len(q[1]) /\ r[1][Len(q) + 1] = h
  BY <1>10, <1>11, SoundMarked
<1>13. /\ Sound(Items(c)) /\ Len(Items(c)[1]) = Len(q[1]) /\ Items(c)[1][Len(q) + 1] = h
  BY <1>9, <1>12 DEF q
<1>14. Len(Items(c)[1]) > l.count
  BY <1>10, <1>11, <1>13
<1>15. Proper(c) /\ c.count = l.count /\ Items(c)[1][l.count + 1] = h
  BY <1>9, <1>11, <1>13 DEF Proper
<1> QED BY <1>14, <1>15 DEF c

\* hash_append() and the item, or nothing more than a longer map.
LEMMA AppendProper ==
  ASSUME NEW l, Proper(l), NEW e \in Seq(Byte), Keyed(e), NEW h \in Byte,
         h = Hash[KeyIn(e)], NEW ok
  PROVE  LET r == AppendItem(l, h, e, ok)
         IN  Proper(r.list) /\ r.status \in {ok, LIST_FULL}
<1> DEFINE a == InitHash(l)
<1>1. /\ Rings(a) /\ a.count > 0
      /\ Items(a) = IF l.count = 0 THEN << <<>> >> ELSE Items(l)
  BY InitHashRings DEF Proper
<1> HIDE DEF a
<1>2. Sound(Items(a))
  <2>1. CASE l.count = 0
    <3> DEFINE q == << <<>> >>
    <3>1. Len(q) = 1 /\ Len(q[1]) = 0
      OBVIOUS
    <3>2. Items(a) = q
      BY <1>1, <2>1
    <3> HIDE DEF q
    <3>3. Sound(q)
      BY <3>1 DEF Sound
    <3> QED BY <3>2, <3>3
  <2>2. CASE l.count # 0
    BY <1>1, <2>2 DEF Proper
  <2> QED BY <2>1, <2>2
<1>3. Proper(a)
  BY <1>1, <1>2 DEF Proper
<1>4. AppendItem(l, h, e, ok) = AppendAfter(a, h, e, ok)
  BY DEF AppendItem, a
<1>5. CASE ~ HasMapRoom(a)
  BY <1>3, <1>4, <1>5 DEF AppendAfter, Result
<1>6. CASE HasMapRoom(a)
  <2> DEFINE b == WithMapRoom(a)
             c == SetMapByte(b, b.count, h)
  <2>1. Proper(b) /\ b.count = a.count /\ b.count < MapSize(b)
    BY <1>1, <1>3, <1>6, WithMapRoomProper
  <2>2. AppendItem(l, h, e, ok) = PushOrFull(c, e, ok)
    BY <1>4, <1>6, <2>1 DEF AppendAfter
  <2> HIDE DEF b
  <2>3. b.count > 0
    BY <1>1, <2>1
  <2>4. /\ Proper(c) /\ c.count = b.count
        /\ Len(Items(c)[1]) > b.count /\ Items(c)[1][b.count + 1] = h
    BY <2>1, <2>3, SetMapByteProper
  <2> HIDE DEF c
  <2>5. /\ Rings(c) /\ Sound(Items(c)) /\ Items(c) \in Seq(Seq(Byte))
        /\ Len(Items(c)) = c.count
    BY <2>4, RingsItems DEF Proper
  <2>6. CASE Full(c, Len(e))
    BY <2>2, <2>4, <2>6 DEF PushOrFull, Result
  <2>7. CASE ~ Full(c, Len(e))
    <3>1. Rings(RPushItem(c, e)) /\ Items(RPushItem(c, e)) = Append(Items(c), e)
      BY <2>5, <2>7, RPushRings
    <3>2. Len(Items(c)) > 0 /\ Len(Items(c)[1]) > Len(Items(c))
      BY <2>3, <2>4, <2>5
    <3>3. Items(c)[1][Len(Items(c)) + 1] = Hash[KeyIn(e)]
      BY <2>4, <2>5
    <3>4. Sound(Append(Items(c), e))
      BY <2>5, <3>2, <3>3, SoundAppend
    <3>5. AppendItem(l, h, e, ok) = [list |-> RPushItem(c, e), status |-> ok]
      BY <2>2, <2>7 DEF PushOrFull, Result
    <3>6. Proper(RPushItem(c, e))
      BY <3>1, <3>4 DEF Proper
    <3> QED BY <3>5, <3>6
  <2> QED BY <2>6, <2>7
<1> QED BY <1>5, <1>6

\* hnew()
LEMMA NewProper ==
  ASSUME NEW l, Proper(l), NEW key \in Keys, NEW val \in Seq(Byte)
  PROVE  Proper(HNew(l, key, val).list) /\ HNew(l, key, val).status \in HashStatus
<1> DEFINE e == Entry(key, val)
<1>1. e \in Seq(Byte) /\ Keyed(e) /\ KeyIn(e) = key
  BY EntryType
<1>2. Hash[key] \in Byte
  BY KeyType
<1> HIDE DEF e
<1>3. LET r == AppendItem(l, Hash[key], e, LIST_OK)
      IN  Proper(r.list) /\ r.status \in {LIST_OK, LIST_FULL}
  BY <1>1, <1>2, AppendProper
<1> QED BY <1>3 DEF HNew, e, HashStatus, ListStatus

\* An item of a hash has a key and the map has its byte.
LEMMA ProperItem ==
  ASSUME NEW l, Proper(l), NEW i \in 1..(l.count - 1)
  PROVE  LET e == Item(l, i)
         IN  /\ e \in Seq(Byte) /\ Keyed(e) /\ e[1] \in Nat
             /\ GetSize(l, i) = Len(e) /\ Items(l)[i + 1] = e
             /\ Items(l)[1][i + 1] = Hash[KeyIn(e)]
<1> DEFINE e == Item(l, i)
<1>1. /\ Rings(l) /\ Sound(Items(l)) /\ Len(Items(l)) = l.count /\ l.count \in Nat
  BY RingsItems DEF Proper
<1>2. i \in 0..(l.count - 1) /\ i + 1 \in 2..Len(Items(l))
  BY <1>1
<1>3. e \in Seq(Byte) /\ GetSize(l, i) = Len(e) /\ Items(l)[i + 1] = e
  BY <1>1, <1>2, RingsItems
<1>4. Keyed(e) /\ Items(l)[1][i + 1] = Hash[KeyIn(e)]
  BY <1>1, <1>2, <1>3 DEF Sound
<1> HIDE DEF e
<1>5. e[1] \in Byte
  BY <1>3, <1>4 DEF Keyed
<1>6. e[1] \in Nat
  BY <1>5, ByteNat
<1> QED BY <1>3, <1>4, <1>6 DEF e

\* What replaces an item has the same key, or one with the same byte.
LEMMA ReplaceProper ==
  ASSUME NEW l, Proper(l), NEW i \in 1..(l.count - 1), NEW g, Rings(g), NEW e \in Seq(Byte),
         Keyed(e), Items(l)[1][i + 1] = Hash[KeyIn(e)],
         Items(g) = [Items(l) EXCEPT ![i + 1] = e]
  PROVE  Proper(g)
<1> DEFINE q == Items(l)
           j == i + 1
<1>1. Sound(q) /\ q \in Seq(Seq(Byte)) /\ Len(q) = l.count /\ l.count \in Nat
  BY RingsItems DEF Proper
<1>2. j \in 2..Len(q) /\ q[1][j] = Hash[KeyIn(e)]
  BY <1>1
<1> HIDE DEF q, j
<1>3. Sound([q EXCEPT ![j] = e])
  BY <1>1, <1>2, SoundItem
<1> QED BY <1>3 DEF q, j, Proper

\* Bytes of a value are written.
LEMMA PatchProper ==
  ASSUME NEW l, Proper(l), NEW i \in 1..(l.count - 1), NEW v \in Seq(Byte), NEW o \in Nat,
         o > Item(l, i)[1], o + Len(v) <= GetSize(l, i)
  PROVE  Proper(CopyInto(l, v, DataOffset(l, StartOf(l, i), o)))
<1> DEFINE g == CopyInto(l, v, DataOffset(l, StartOf(l, i), o))
           e == Item(l, i)
           p == Patch(e, o, v)
<1>1. Rings(l) /\ i \in 0..(l.count - 1)
  BY DEF Proper
<1>2. Rings(g) /\ Items(g) = [Items(l) EXCEPT ![i + 1] = p]
  BY <1>1, PatchRings
<1> HIDE DEF g
<1>3. /\ e \in Seq(Byte) /\ Keyed(e) /\ e[1] \in Nat /\ GetSize(l, i) = Len(e)
      /\ Items(l)[1][i + 1] = Hash[KeyIn(e)]
  BY ProperItem
<1>4. o > e[1]
  OBVIOUS
<1> HIDE DEF e
<1>5. /\ p \in Seq(Byte) /\ Len(p) = Len(e)
      /\ \A k \in 1..Len(e) : p[k] = IF o < k /\ k <= o + Len(v) THEN v[k - o] ELSE e[k]
  BY <1>3, PatchType
<1> HIDE DEF p
<1>6. e[1] < Len(e) /\ Len(e) \in Nat
  BY <1>3 DEF Keyed
<1>7. \A k \in 1..(e[1] + 1) : p[k] = e[k]
  BY <1>3, <1>4, <1>5, <1>6
<1>8. Keyed(p) /\ KeyIn(p) = KeyIn(e)
  BY <1>3, <1>5, <1>6, <1>7, SameKey
<1>9. Items(l)[1][i + 1] = Hash[KeyIn(p)]
  BY <1>3, <1>8
<1>10. Proper(g)
  BY <1>2, <1>5, <1>8, <1>9, ReplaceProper
<1> QED BY <1>10 DEF g

\* Room is made behind a value, or bytes are taken off its end.
LEMMA StretchProper ==
  ASSUME NEW l, Proper(l), NEW i \in 1..(l.count - 1), NEW amt \in Int,
         GetSize(l, i) + amt > Item(l, i)[1], ~ (amt > 0 /\ DataFull(l, amt))
  PROVE  LET g == Stretch(l, i, amt, FALSE)
         IN  /\ Proper(g) /\ g.count = l.count /\ GetSize(g, i) = GetSize(l, i) + amt
             /\ Item(g, i)[1] = Item(l, i)[1]
<1> DEFINE g == Stretch(l, i, amt, FALSE)
           e == Item(l, i)
           p == Item(g, i)
<1>1. Rings(l) /\ i \in 0..(l.count - 1)
  BY DEF Proper
<1>3. /\ e \in Seq(Byte) /\ Keyed(e) /\ e[1] \in Nat /\ GetSize(l, i) = Len(e)
      /\ Items(l)[1][i + 1] = Hash[KeyIn(e)]
  BY ProperItem
<1>4. -amt <= GetSize(l, i)
  BY <1>3
<1>2. /\ Rings(g) /\ g.count = l.count
      /\ Items(g) = [Items(l) EXCEPT ![i + 1] = p]
      /\ p \in Seq(Byte) /\ Len(p) = GetSize(l, i) + amt
      /\ Prefixed(e, p)
  BY <1>1, <1>4, StretchRings
<1>11. GetSize(l, i) + amt > e[1]
  OBVIOUS
<1>12. GetSize(g, i) = Len(p)
  <2> HIDE DEF g
  <2> QED BY <1>1, <1>2, RingsItems
<1> HIDE DEF g, e, p
<1>6. e[1] < Len(e) /\ Len(e) \in Nat /\ e[1] < Len(p) /\ Len(p) \in Nat
  BY <1>2, <1>3, <1>11 DEF Keyed
<1>7. \A k \in 1..(e[1] + 1) : p[k] = e[k]
  BY <1>2, <1>3, <1>6 DEF Prefixed
<1>8. Keyed(p) /\ KeyIn(p) = KeyIn(e)
  BY <1>2, <1>3, <1>6, <1>7, SameKey
<1>9. Items(l)[1][i + 1] = Hash[KeyIn(p)]
  BY <1>3, <1>8
<1>10. Proper(g)
  BY <1>2, <1>8, <1>9, ReplaceProper
<1>13. p[1] = e[1]
  BY <1>3, <1>7
<1> QED BY <1>2, <1>10, <1>12, <1>13 DEF g, e, p

\* hupdate() of the item a search has found.
LEMMA UpdateProper ==
  ASSUME NEW l, Proper(l), NEW key \in Keys, NEW val \in Seq(Byte)
  PROVE  LET r == HUpdate(l, Locate(l, key), key, val)
         IN  Proper(r.list) /\ r.status \in HashStatus
<1> DEFINE i == Locate(l, key)
           e == Entry(key, val)
           n == Len(key)
           amt == Len(e) - GetSize(l, i)
           r == HUpdate(l, i, key, val)
<1>1. Rings(l) /\ Sound(Items(l)) /\ l.count \in Nat
  BY RingsItems DEF Proper
<1>2. \/ i = l.count
      \/ /\ i \in 1..(l.count - 1)
         /\ Items(l)[1][i + 1] = Hash[key]
         /\ GetSize(l, i) >= n + 1
         /\ Item(l, i)[1] = n
  BY <1>1, LocateFound
<1> HIDE DEF i
<1>3. CASE i >= l.count
  <2>1. r = HNew(l, key, val)
    BY <1>3 DEF HUpdate
  <2> QED BY <2>1, NewProper DEF i
<1>4. CASE ~ (i >= l.count)
  <2>1. /\ i \in 1..(l.count - 1) /\ i \in 0..(l.count - 1)
        /\ Items(l)[1][i + 1] = Hash[key] /\ GetSize(l, i) >= n + 1 /\ Item(l, i)[1] = n
    BY <1>1, <1>2, <1>4
  <2>2. e \in Seq(Byte) /\ Len(e) = n + Len(val) + 1 /\ Keyed(e) /\ KeyIn(e) = key /\ n \in Nat
    BY EntryType, KeyType
  <2>3. GetSize(l, i) \in Nat
    BY <1>1, <2>1, RingsItems
  <2>4. CASE amt > 0 /\ DataFull(l, amt)
    <3>1. r.list = l /\ r.status = LIST_FULL
      BY <1>4, <2>4 DEF HUpdate, Result
    <3> QED BY <3>1 DEF i, HashStatus, ListStatus
  <2>5. CASE ~ (amt > 0 /\ DataFull(l, amt)) /\ amt = 0
    <3> DEFINE o == n + 1
               g == CopyInto(l, val, DataOffset(l, StartOf(l, i), o))
    <3>1. r.list = g /\ r.status = HASH_UPDATED
      BY <1>4, <2>5 DEF HUpdate, Result, CopyValue
    <3>2. o \in Nat /\ o > Item(l, i)[1] /\ o + Len(val) <= GetSize(l, i)
      <4> HIDE DEF n, e
      <4> QED BY <2>1, <2>2, <2>3, <2>5
    <3> HIDE DEF o
    <3>3. Proper(g)
      BY <2>1, <3>2, PatchProper
    <3> QED BY <3>1, <3>3 DEF i, HashStatus
  <2>6. CASE ~ (amt > 0 /\ DataFull(l, amt)) /\ amt # 0
    <3> DEFINE g == LSetItem(l, i, e)
    <3>1. r.list = g /\ r.status = HASH_UPDATED
      BY <1>4, <2>6 DEF HUpdate, Result, LSetItem, Stretch
    <3> HIDE DEF e
    <3>2. Rings(g) /\ Items(g) = [Items(l) EXCEPT ![i + 1] = e]
      BY <1>1, <2>1, <2>2, <2>6, LSetRings
    <3> HIDE DEF g
    <3>3. Proper(g)
      BY <2>1, <2>2, <3>2, ReplaceProper
    <3> QED BY <3>1, <3>3 DEF i, HashStatus
  <2> QED BY <2>4, <2>5, <2>6
<1> QED BY <1>3, <1>4 DEF i

\* halloc()
LEMMA AllocateProper ==
  ASSUME NEW l, Proper(l), NEW key \in Keys, NEW val \in Seq(Byte)
  PROVE  LET r == HAllocate(l, key, val)
         IN  Proper(r.list) /\ r.status \in HashStatus
<1> DEFINE i == Locate(l, key)
           e == Entry(key, val)
           n == Len(key)
           amt == Len(e) - GetSize(l, i)
           r == HAllocate(l, key, val)
<1>1. Rings(l) /\ Sound(Items(l)) /\ l.count \in Nat
  BY RingsItems DEF Proper
<1>2. \/ i = l.count
      \/ /\ i \in 1..(l.count - 1)
         /\ GetSize(l, i) >= n + 1
         /\ Item(l, i)[1] = n
  BY <1>1, LocateFound
<1>3. CASE i >= l.count
  <2>1. r = HNew(l, key, val)
    BY <1>3 DEF HAllocate
  <2> QED BY <2>1, NewProper
<1>4. CASE ~ (i >= l.count)
  <2>0. r = IF amt > 0 /\ DataFull(l, amt) THEN Result(l, LIST_FULL)
            ELSE Result(CopyValue(Stretch(l, i, amt, FALSE), i, key, val), LIST_OK)
    BY <1>4 DEF HAllocate
  <2>1. /\ i \in 1..(l.count - 1) /\ i \in 0..(l.count - 1)
        /\ GetSize(l, i) >= n + 1 /\ Item(l, i)[1] = n
    BY <1>1, <1>2, <1>4
  <2> HIDE DEF i, r
  <2>2. e \in Seq(Byte) /\ Len(e) = n + Len(val) + 1 /\ n \in Nat /\ Len(val) \in Nat
    BY EntryType, KeyType
  <2>3. GetSize(l, i) \in Nat
    BY <1>1, <2>1, RingsItems
  <2>4. CASE amt > 0 /\ DataFull(l, amt)
    <3>1. r.list = l /\ r.status = LIST_FULL
      BY <2>0, <2>4 DEF Result
    <3> QED BY <3>1 DEF r, HashStatus, ListStatus
  <2>5. CASE ~ (amt > 0 /\ DataFull(l, amt))
    <3> DEFINE m == Stretch(l, i, amt, FALSE)
               o == n + 1
               g == CopyInto(m, val, DataOffset(m, StartOf(m, i), o))
    <3>1. r.list = g /\ r.status = LIST_OK
      BY <2>0, <2>5 DEF Result, CopyValue
    <3>2. amt \in Int /\ GetSize(l, i) + amt = n + Len(val) + 1
      <4> HIDE DEF n, e
      <4> QED BY <2>2, <2>3
    <3> HIDE DEF amt, n
    <3>3. GetSize(l, i) + amt > Item(l, i)[1]
      BY <2>1, <2>2, <3>2
    <3>4. Proper(m) /\ m.count = l.count /\ GetSize(m, i) = GetSize(l, i) + amt
          /\ Item(m, i)[1] = Item(l, i)[1]
      BY <2>1, <2>5, <3>2, <3>3, StretchProper
    <3> HIDE DEF m
    <3>5. o \in Nat /\ o > Item(m, i)[1] /\ o + Len(val) <= GetSize(m, i)
      BY <2>1, <2>2, <3>2, <3>4
    <3> HIDE DEF o
    <3>6. Proper(g)
      BY <2>1, <3>4, <3>5, PatchProper
    <3> QED BY <3>1, <3>6 DEF r, HashStatus, ListStatus
  <2> QED BY <2>4, <2>5
<1> QED BY <1>3, <1>4

\* happend()
LEMMA AppendValueProper ==
  ASSUME NEW l, Proper(l), NEW key \in Keys, NEW val \in Seq(Byte)
  PROVE  LET r == HAppendValue(l, key, val)
         IN  Proper(r.list) /\ r.status \in HashStatus
<1> DEFINE i == Locate(l, key)
           n == Len(key)
           amt == Len(val)
           r == HAppendValue(l, key, val)
<1>1. Rings(l) /\ Sound(Items(l)) /\ l.count \in Nat
  BY RingsItems DEF Proper
<1>2. \/ i = l.count
      \/ /\ i \in 1..(l.count - 1)
         /\ GetSize(l, i) >= n + 1
         /\ Item(l, i)[1] = n
  BY <1>1, LocateFound
<1>3. CASE i >= l.count
  <2>1. r = HNew(l, key, val)
    BY <1>3 DEF HAppendValue
  <2> QED BY <2>1, NewProper
<1>4. CASE ~ (i >= l.count)
  <2> DEFINE m == Stretch(l, i, amt, FALSE)
             o == GetSize(l, i)
             g == CopyInto(m, val, DataOffset(m, StartOf(m, i), o))
  <2>0. r = IF val = <<>> THEN Result(l, HASH_UPDATED)
            ELSE IF DataFull(l, amt) THEN Result(l, LIST_FULL)
            ELSE Result(g, HASH_UPDATED)
    BY <1>4 DEF HAppendValue
  <2>1. /\ i \in 1..(l.count - 1) /\ i \in 0..(l.count - 1)
        /\ GetSize(l, i) >= n + 1 /\ Item(l, i)[1] = n
    BY <1>1, <1>2, <1>4
  <2> HIDE DEF i, r
  <2>2. n \in Nat /\ amt \in Nat
    BY KeyType
  <2>3. GetSize(l, i) \in Nat
    BY <1>1, <2>1, RingsItems
  <2>4. CASE val = <<>> \/ DataFull(l, amt)
    <3>1. r.list = l /\ r.status \in {LIST_FULL, HASH_UPDATED}
      BY <2>0, <2>4 DEF Result
    <3> QED BY <3>1 DEF r, HashStatus, ListStatus
  <2>5. CASE ~ (val = <<>> \/ DataFull(l, amt))
    <3>1. r.list = g /\ r.status = HASH_UPDATED
      BY <2>0, <2>5 DEF Result
    <3>2. amt = Len(val) /\ amt \in Int
      BY <2>2
    <3> HIDE DEF amt, n
    <3>3. GetSize(l, i) + amt > Item(l, i)[1]
      BY <2>1, <2>2, <2>3
    <3>4. Proper(m) /\ m.count = l.count /\ GetSize(m, i) = GetSize(l, i) + amt
          /\ Item(m, i)[1] = Item(l, i)[1]
      BY <2>1, <2>5, <3>2, <3>3, StretchProper
    <3> HIDE DEF m
    <3>5. o \in Nat /\ o > Item(m, i)[1] /\ o + Len(val) <= GetSize(m, i)
      BY <2>1, <2>2, <2>3, <3>2, <3>4
    <3> HIDE DEF o
    <3>6. Proper(g)
      BY <2>1, <3>4, <3>5, PatchProper
    <3> QED BY <3>1, <3>6 DEF r, HashStatus, ListStatus
  <2> QED BY <2>4, <2>5
<1> QED BY <1>3, <1>4

\* hrem(): the item goes, and its byte out of the map.
LEMMA RemItemProper ==
  ASSUME NEW l, Proper(l), NEW i \in 1..(l.count - 1)
  PROVE  Proper(HRemItem(l, i)) /\ HRemItem(l, i).count = l.count - 1
<1> DEFINE m == LRemItem(l, i)
           q == Items(l)
           p == Items(m)
<1>1. /\ Rings(l) /\ Sound(q) /\ q \in Seq(Seq(Byte)) /\ Len(q) = l.count /\ l.count \in Nat
  BY RingsItems DEF Proper
<1>2. Rings(m) /\ p = RemoveAt(q, i + 1)
  BY <1>1, LRemRings
<1> HIDE DEF m
<1>3. /\ Len(p) = m.count /\ m.count \in Nat /\ p \in Seq(Seq(Byte)) /\ WellFormed(m)
  BY <1>2, RingsItems
<1> DEFINE j == i + 1
<1>4. j \in 1..Len(q) /\ j \in 2..Len(q)
  BY <1>1
<1> HIDE DEF j, p, q
<1>5. /\ Len(p) = Len(q) - 1
      /\ \A n \in 1..(Len(q) - 1) : p[n] = IF n < j THEN q[n] ELSE q[n + 1]
  BY <1>1, <1>2, <1>4, RemoveAtElements DEF j
<1>6. m.count = l.count - 1 /\ m.count > 0 /\ p[1] = q[1] /\ 1 \in DOMAIN p
  <2>1. Len(q) \in Nat /\ Len(q) >= 2 /\ 1 < j
    BY <1>1, <1>4
  <2>2. p[1] = q[1]
    BY <1>5, <2>1
  <2>3. m.count = l.count - 1 /\ m.count > 0
    BY <1>1, <1>3, <1>5, <2>1
  <2>4. DOMAIN p = 1..Len(p)
    BY <1>3
  <2> QED BY <1>3, <2>2, <2>3, <2>4
<1> DEFINE size == MapSize(m)
           v == Items(m)[1]
<1>7. size \in Nat /\ size = Len(v) /\ v = Item(m, 0) /\ v \in Seq(Byte) /\ v = q[1]
  BY <1>2, <1>6, MapSizeItem DEF p
<1>8. Len(q) > 1 /\ Len(q) <= size
  BY <1>1, <1>4, <1>7 DEF Sound
<1> DEFINE len == Smaller(m.count + 1, size)
<1>9. len = l.count
  BY <1>1, <1>6, <1>7, <1>8 DEF Smaller
<1>10. HRemItem(l, i) = HashDelete(m, i)
  BY DEF HRemItem, m
<1> HIDE DEF v, size
<1>11. CASE i = m.count
  <2>1. HRemItem(l, i) = m
    BY <1>10, <1>11 DEF HashDelete
  <2>2. p = [p EXCEPT ![1] = v]
    BY <1>3, <1>6, <1>7
  <2>3. \A k \in 1..(j - 1) : v[k] = q[1][k]
    BY <1>7
  <2>4. \A k \in j..(Len(q) - 1) : v[k] = q[1][k + 1]
    BY <1>1, <1>6, <1>11 DEF j
  <2>5. Sound([RemoveAt(q, j) EXCEPT ![1] = v])
    BY <1>1, <1>4, <1>7, <2>3, <2>4, SoundRemove
  <2>6. Sound(p)
    BY <1>2, <2>2, <2>5 DEF j
  <2> QED BY <1>2, <1>6, <2>1, <2>6 DEF Proper, p
<1>12. CASE i # m.count
  <2> DEFINE d == [k \in 1..(len - i) |-> MapByte(m, i + k)]
             zero == 0
             g == CopyInto(m, d, DataOffset(m, StartOf(m, zero), i))
             e == Patch(v, i, d)
  <2>1. HRemItem(l, i) = g
    BY <1>10, <1>12 DEF HashDelete, size
  <2>2. i \in Nat /\ len - i \in Nat /\ i + (len - i) = len
    BY <1>1, <1>9
  <2>3. ASSUME NEW k \in 1..(len - i) PROVE MapByte(m, i + k) \in Byte
    <3> HIDE DEF zero
    <3>1. i + k \in Int /\ zero \in Int
      BY <2>2 DEF zero
    <3> DEFINE x == i + k
    <3> HIDE DEF x
    <3>2. m.blob[DataOffset(m, StartOf(m, zero), x)] \in Byte
      BY <1>3, <3>1, AnyBytes DEF x
    <3> QED BY <3>2 DEF MapByte, zero, x
  <2>4. d \in Seq(Byte) /\ Len(d) = len - i /\ \A k \in 1..(len - i) : d[k] = MapByte(m, i + k)
    <3> DEFINE y == len - i
    <3>1. y \in Nat /\ (\A k \in 1..y : MapByte(m, i + k) \in Byte)
      BY <2>2, <2>3
    <3> HIDE DEF y
    <3>2. LET f == [k \in 1..y |-> MapByte(m, i + k)]
          IN  f \in Seq(Byte) /\ Len(f) = y /\ \A k \in 1..y : f[k] = MapByte(m, i + k)
      BY <3>1
    <3> QED BY <3>2 DEF y
  <2> HIDE DEF d, len
  <2>5. zero \in 0..(m.count - 1) /\ zero + 1 = 1
    BY <1>3, <1>6
  <2>6. i + Len(d) <= GetSize(m, zero)
    BY <1>1, <1>7, <1>8, <1>9, <2>2, <2>4 DEF MapSize, size
  <2> HIDE DEF zero
  <2>7. /\ Rings(g) /\ SameIndex(m, g)
        /\ Items(g) = [Items(m) EXCEPT ![zero + 1] = Patch(Item(m, zero), i, d)]
    <3>1. Rings(m) /\ zero \in 0..(m.count - 1) /\ i \in Nat /\ d \in Seq(Byte)
      BY <1>2, <2>2, <2>4, <2>5
    <3> QED BY <2>6, <3>1, PatchRings
  <2>8. Items(g) = [p EXCEPT ![1] = e] /\ g.count = m.count
    BY <1>7, <2>5, <2>7 DEF p, zero, SameIndex
  <2> HIDE DEF g
  <2>9. /\ e \in Seq(Byte) /\ Len(e) = Len(v)
        /\ \A k \in 1..Len(v) : e[k] = IF i < k /\ k <= i + Len(d) THEN d[k - i] ELSE v[k]
    BY <1>7, <2>2, <2>4, PatchType
  <2> HIDE DEF e
  <2> DEFINE a == Len(q)
             b == Len(v)
  <2>14. /\ a \in Nat /\ b \in Nat /\ a <= b /\ size = b /\ len = a /\ Len(d) = a - i
         /\ j = i + 1 /\ j \in 2..a /\ i \in Nat
    BY <1>1, <1>4, <1>7, <1>8, <1>9, <2>2, <2>4 DEF j
  <2>15. \A k \in 1..b : e[k] = IF i < k /\ k <= i + Len(d) THEN d[k - i] ELSE v[k]
    BY <2>9
  <2> HIDE DEF a, b
  <2>10. \A k \in 1..(j - 1) : e[k] = q[1][k]
    <3> SUFFICES ASSUME NEW k \in 1..(j - 1) PROVE e[k] = q[1][k]
      OBVIOUS
    <3>1. k \in 1..b /\ ~ (i < k)
      BY <2>14
    <3>2. e[k] = v[k]
      BY <2>15, <3>1
    <3> QED BY <1>7, <3>2
  <2>11. ASSUME NEW k \in j..(Len(q) - 1) PROVE e[k] = q[1][k + 1]
    <3>0. k \in j..(a - 1)
      BY DEF a
    <3>1. k \in 1..b /\ i < k /\ k <= i + Len(d) /\ k - i \in 1..(len - i)
          /\ i + (k - i) = k /\ k \in 0..(size - 1)
      BY <2>14, <3>0
    <3>2. e[k] = d[k - i]
      BY <2>15, <3>1
    <3>3. d[k - i] = MapByte(m, k)
      BY <2>4, <3>1
    <3>4. MapByte(m, k) = Items(m)[1][k + 1]
      BY <1>2, <1>6, <3>1, MapByteItem DEF size
    <3> QED BY <1>7, <3>2, <3>3, <3>4 DEF v
  <2>12. Sound([RemoveAt(q, j) EXCEPT ![1] = e])
    BY <1>1, <1>4, <1>7, <2>9, <2>10, <2>11, SoundRemove
  <2>13. Sound(Items(g))
    BY <1>2, <2>8, <2>12 DEF j
  <2> QED BY <1>6, <2>1, <2>7, <2>8, <2>13 DEF Proper
<1> QED BY <1>11, <1>12

\* Items are cut off, whatever is counted for them.
LEMMA CutProper ==
  ASSUME NEW l, Proper(l), NEW c \in 0..l.count
  PROVE  Proper([l EXCEPT !.count = c])
<1>1. /\ Rings(l) /\ Sound(Items(l)) /\ Items(l) \in Seq(Seq(Byte)) /\ Len(Items(l)) = l.count
      /\ l.count \in Nat /\ l.data_len \in Nat /\ l.data_len < l.data_size /\ WellFormed(l)
  BY RingsItems DEF Proper
<1> DEFINE d == l.data_len
           g == [l EXCEPT !.count = c, !.data_len = d]
<1>2. Distance(l, c) <= d
  <2> DEFINE t == Tight(l)
  <2>1. WellFormed(t) /\ Layout(t) /\ SameBut(l, t) /\ t.data_len = Distance(l, l.count)
    <3> DEFINE n == Distance(l, l.count)
    <3>1. n \in Nat
      <4>1. l.count \in Int /\ l.data_size \in Nat
        BY <1>1, HeaderType
      <4>2. n \in 0..(l.data_size - 1)
        BY <1>1, <4>1, DistanceType
      <4> QED BY <4>1, <4>2
    <3> HIDE DEF n
    <3>2. LET x == [l EXCEPT !.data_len = n]
          IN  WellFormed(x) /\ SameBut(l, x) /\ x.data_len = n
      BY <1>1, <3>1, Recounted
    <3> QED BY <1>1, <3>2 DEF Tight, n, Rings
  <2> HIDE DEF t
  <2>2. c \in 0..t.count
    BY <2>1 DEF SameBut
  <2>3. Distance(t, c) \in 0..t.data_len
    BY <2>1, <2>2, LayoutElim
  <2>4. Distance(t, c) = Distance(l, c)
    BY <2>1, SameRead
  <2>5. t.data_len <= d /\ t.data_len \in Nat
    BY <1>1, <2>1, HeaderType DEF Rings
  <2>6. Distance(t, c) <= t.data_len /\ Distance(t, c) \in Int
    BY <2>3
  <2> HIDE DEF d
  <2>7. d \in Nat
    BY <1>1 DEF d
  <2> QED BY <2>4, <2>5, <2>6, <2>7
<1>3. Rings(g) /\ Items(g) = SubSeq(Items(l), 1, c)
  <2> HIDE DEF d
  <2>1. d \in Nat /\ d < l.data_size
    BY <1>1 DEF d
  <2> QED BY <1>1, <1>2, <2>1, CutRings
<1>4. g = [l EXCEPT !.count = c]
  <2>1. Rec(l)
    BY <1>1, WellFormedRec
  <2> QED BY <2>1 DEF Rec
<1>5. Sound(SubSeq(Items(l), 1, c))
  <2> DEFINE q == Items(l)
  <2>1. q \in Seq(Seq(Byte)) /\ Sound(q) /\ c \in 0..Len(q)
    BY <1>1
  <2> HIDE DEF q
  <2>2. Sound(SubSeq(q, 1, c))
    BY <2>1, SoundCut
  <2> QED BY <2>2 DEF q
<1> HIDE DEF g
<1> QED BY <1>3, <1>4, <1>5 DEF Proper

-----------------------------------------------------------------------------
(* The loops over the items, as recursive functions. *)

\* One turn of the loop that removes.
Removed(drop, x, i) == IF i \in drop THEN HRemItem(x, i) ELSE x

\* f is what the loop over the items n to len-1 of l computes.
Removal(f, drop, l, n, len) ==
  f = [i \in n..len |-> IF i = len THEN l ELSE Removed(drop, f[i + 1], i)]

\* There is such a function.
LEMMA RemovalExists ==
  ASSUME NEW drop, NEW l, NEW len \in Nat \ {0}
  PROVE  \E f : Removal(f, drop, l, 1, len)
<1> DEFINE S == {k \in Nat : k < len => \E f : Removal(f, drop, l, len - k, len)}
<1>1. ASSUME NEW k \in Nat, \A m \in 0..(k - 1) : m \in S
      PROVE  k \in S
  <2> SUFFICES ASSUME k < len PROVE \E f : Removal(f, drop, l, len - k, len)
    OBVIOUS
  <2>1. CASE k = 0
    <3> DEFINE f == [i \in len..len |-> l]
    <3>1. f = [i \in len..len |-> IF i = len THEN l ELSE Removed(drop, f[i + 1], i)]
      OBVIOUS
    <3>2. len - k = len
      BY <2>1
    <3>3. Removal(f, drop, l, len, len)
      BY <3>1 DEF Removal
    <3> QED BY <3>2, <3>3
  <2>2. CASE k # 0
    <3> DEFINE n == len - k
               b == n + 1
    <3>1. k - 1 \in 0..(k - 1) /\ k - 1 < len /\ len - (k - 1) = b /\ n \in Nat
      BY <2>2
    <3>2. k - 1 \in S
      BY <1>1, <3>1
    <3>3. PICK f : Removal(f, drop, l, b, len)
      <4>1. \E f : Removal(f, drop, l, len - (k - 1), len)
        BY <3>1, <3>2
      <4> QED BY <3>1, <4>1
    <3> DEFINE g == [i \in n..len |-> IF i = n THEN Removed(drop, f[i + 1], i) ELSE f[i]]
    <3>4. n < len /\ \A i \in n..len : i = n \/ i \in b..len
      BY <2>2
    <3>5. f = [i \in b..len |-> IF i = len THEN l ELSE Removed(drop, f[i + 1], i)]
      BY <3>3 DEF Removal
    <3> HIDE DEF n
    <3>6. ASSUME NEW i \in n..len
          PROVE  g[i] = IF i = len THEN l ELSE Removed(drop, g[i + 1], i)
      <4>1. CASE i = n
        <5>1. i + 1 \in n..len /\ i + 1 # n /\ i # len
          BY <3>1, <3>4, <4>1
        <5>2. g[i + 1] = f[i + 1]
          BY <5>1
        <5> QED BY <4>1, <5>1, <5>2
      <4>2. CASE i # n
        <5>1. i \in b..len
          BY <3>4, <4>2
        <5>2. g[i] = f[i]
          BY <4>2
        <5>3. f[i] = IF i = len THEN l ELSE Removed(drop, f[i + 1], i)
          BY <3>5, <5>1
        <5>4. i # len => i + 1 \in n..len /\ i + 1 # n
          BY <3>1, <5>1
        <5>5. i # len => g[i + 1] = f[i + 1]
          BY <5>4
        <5> QED BY <5>2, <5>3, <5>5
      <4> QED BY <4>1, <4>2
    <3>7. Removal(g, drop, l, n, len)
      <4>1. g = [i \in n..len |-> g[i]]
        OBVIOUS
      <4> HIDE DEF g
      <4> QED BY <3>6, <4>1 DEF Removal
    <3> QED BY <3>7 DEF n
  <2> QED BY <2>1, <2>2
<1> HIDE DEF S
<1>2. S \in SUBSET Nat
  BY DEF S
<1>3. S = Nat
  BY <1>1, <1>2, Induction
<1>4. len - 1 \in S /\ len - 1 < len /\ len - (len - 1) = 1
  BY <1>3
<1> QED BY <1>4 DEF S

\* It is the one of the definition.
LEMMA RemoveEachRuns ==
  ASSUME NEW l, NEW drop, MapLen(l) \in Nat \ {0}
  PROVE  \E f : Removal(f, drop, l, 1, MapLen(l)) /\ RemoveEach(l, drop) = f[1]
<1> DEFINE f == CHOOSE f : Removal(f, drop, l, 1, MapLen(l))
<1>1. Removal(f, drop, l, 1, MapLen(l))
  BY RemovalExists
<1>2. RemoveEach(l, drop) = f[1]
  BY DEF RemoveEach, Removal, Removed
<1> QED BY <1>1, <1>2

\* Items are removed from the last to the first, and each is there yet.
LEMMA RemoveEachProper ==
  ASSUME NEW l, Proper(l), l.count > 1, NEW drop
  PROVE  Proper(RemoveEach(l, drop))
<1> DEFINE len == MapLen(l)
<1>1. /\ Rings(l) /\ Sound(Items(l)) /\ Len(Items(l)) = l.count /\ l.count \in Nat
  BY RingsItems DEF Proper
<1>2. MapSize(l) \in Nat /\ MapSize(l) = Len(Items(l)[1])
  BY <1>1, MapSizeItem
<1>3. l.count <= MapSize(l)
  BY <1>1, <1>2 DEF Sound
<1>4. len = l.count /\ len \in Nat \ {0}
  BY <1>1, <1>2, <1>3 DEF MapLen, Smaller
<1>5. PICK f : Removal(f, drop, l, 1, len) /\ RemoveEach(l, drop) = f[1]
  BY <1>4, RemoveEachRuns
<1> HIDE DEF len
<1> DEFINE S == {k \in Nat : k < len => Proper(f[len - k]) /\ f[len - k].count >= len - k
                                        /\ f[len - k].count \in Nat}
<1>6. ASSUME NEW k \in Nat, \A m \in 0..(k - 1) : m \in S
      PROVE  k \in S
  <2> DEFINE n == len - k
             b == n + 1
  <2> SUFFICES ASSUME k < len PROVE Proper(f[n]) /\ f[n].count >= n /\ f[n].count \in Nat
    OBVIOUS
  <2>1. n \in 1..len /\ n \in Nat
    BY <1>4
  <2>2. f[n] = IF n = len THEN l ELSE Removed(drop, f[b], n)
    BY <1>5, <2>1 DEF Removal
  <2>3. CASE n = len
    BY <1>1, <1>4, <2>2, <2>3
  <2>4. CASE n # len
    <3> DEFINE x == f[b]
    <3>1. k - 1 \in 0..(k - 1) /\ k - 1 < len /\ len - (k - 1) = b
      BY <1>4, <2>4
    <3>2. k - 1 \in S
      BY <1>6, <3>1
    <3>3. Proper(x) /\ x.count >= b /\ x.count \in Nat
      BY <3>1, <3>2
    <3> HIDE DEF x
    <3>4. f[n] = Removed(drop, x, n)
      BY <2>2, <2>4 DEF x
    <3>5. n \in 1..(x.count - 1)
      BY <2>1, <3>3
    <3> HIDE DEF n
    <3>6. Proper(HRemItem(x, n)) /\ HRemItem(x, n).count = x.count - 1
      BY <3>3, <3>5, RemItemProper
    <3>7. CASE n \in drop
      <4>1. f[n] = HRemItem(x, n)
        BY <3>4, <3>7 DEF Removed
      <4> QED BY <2>1, <3>3, <3>6, <4>1
    <3>8. CASE n \notin drop
      <4>1. f[n] = x
        BY <3>4, <3>8 DEF Removed
      <4> QED BY <2>1, <3>3, <4>1
    <3> QED BY <3>7, <3>8
  <2> QED BY <2>3, <2>4
<1> HIDE DEF S
<1>7. S \in SUBSET Nat
  BY DEF S
<1>8. S = Nat
  BY <1>6, <1>7, Induction
<1>9. len - 1 \in S /\ len - 1 < len /\ len - (len - 1) = 1
  BY <1>4, <1>8
<1>10. Proper(f[1])
  BY <1>9 DEF S
<1> QED BY <1>5, <1>10

\* hinter(), of either kind.
LEMMA InterProper ==
  ASSUME NEW l, Proper(l), NEW x, NEW b
  PROVE  Proper(HInterItems(l, x, b))
<1>1. l.count \in Nat
  BY RingsItems DEF Proper
<1>2. PICK drop : HInterItems(l, x, b) =
                    IF x.count <= 1 \/ l.count <= 1
                    THEN IF b THEN [l EXCEPT !.count = 0] ELSE l
                    ELSE RemoveEach(l, drop)
  BY DEF HInterItems, InterBy
<1>3. CASE x.count <= 1 \/ l.count <= 1
  <2> DEFINE zero == 0
  <2>1. zero \in 0..l.count
    BY <1>1
  <2> HIDE DEF zero
  <2>2. Proper([l EXCEPT !.count = zero])
    BY <2>1, CutProper
  <2> QED BY <1>2, <1>3, <2>2 DEF zero
<1>4. CASE ~ (x.count <= 1 \/ l.count <= 1)
  <2>1. l.count > 1
    BY <1>1, <1>4
  <2>2. Proper(RemoveEach(l, drop))
    BY <2>1, RemoveEachProper
  <2> QED BY <1>2, <1>4, <2>2
<1> QED BY <1>3, <1>4

\* f is what the loop computes, up to item n.
Adding(f, l, ctx, n) ==
  f = [i \in 0..n |-> IF i = 0 THEN [list |-> l, j |-> ctx.j, status |-> LIST_OK]
                      ELSE UnionStep(ctx, f[i - 1], i)]

\* There is such a function.
LEMMA AddingExists ==
  ASSUME NEW l, NEW ctx, NEW n \in Nat
  PROVE  \E f : Adding(f, l, ctx, n)
<1> DEFINE S == {k \in Nat : \E f : Adding(f, l, ctx, k)}
           first == [list |-> l, j |-> ctx.j, status |-> LIST_OK]
<1>1. ASSUME NEW k \in Nat, \A m \in 0..(k - 1) : m \in S
      PROVE  k \in S
  <2> SUFFICES \E f : Adding(f, l, ctx, k)
    OBVIOUS
  <2>1. CASE k = 0
    <3> DEFINE f == [i \in 0..0 |-> first]
    <3>1. f = [i \in 0..0 |-> IF i = 0 THEN first ELSE UnionStep(ctx, f[i - 1], i)]
      <4> HIDE DEF first
      <4> QED OBVIOUS
    <3>2. Adding(f, l, ctx, 0)
      BY <3>1 DEF Adding
    <3> QED BY <2>1, <3>2
  <2>2. CASE k # 0
    <3> DEFINE p == k - 1
    <3>1. p \in 0..(k - 1) /\ p \in Nat /\ k = p + 1
      BY <2>2
    <3>2. p \in S
      BY <1>1, <3>1
    <3>3. PICK f : Adding(f, l, ctx, p)
      BY <3>2
    <3> DEFINE g == [i \in 0..k |-> IF i = k THEN UnionStep(ctx, f[i - 1], i) ELSE f[i]]
    <3>4. f = [i \in 0..p |-> IF i = 0 THEN first ELSE UnionStep(ctx, f[i - 1], i)]
      BY <3>3 DEF Adding
    <3> HIDE DEF p, first
    <3>5. ASSUME NEW i \in 0..k
          PROVE  g[i] = IF i = 0 THEN first ELSE UnionStep(ctx, g[i - 1], i)
      <4>1. CASE i = k
        <5>1. i - 1 \in 0..k /\ i - 1 # k /\ i # 0
          BY <2>2, <4>1
        <5>2. g[i - 1] = f[i - 1]
          BY <5>1
        <5> QED BY <4>1, <5>1, <5>2
      <4>2. CASE i # k
        <5>1. i \in 0..p
          BY <3>1, <4>2
        <5>2. g[i] = f[i]
          BY <4>2
        <5>3. f[i] = IF i = 0 THEN first ELSE UnionStep(ctx, f[i - 1], i)
          BY <3>4, <5>1
        <5>4. i # 0 => i - 1 \in 0..k /\ i - 1 # k
          BY <3>1, <5>1
        <5>5. i # 0 => g[i - 1] = f[i - 1]
          BY <5>4
        <5> QED BY <5>2, <5>3, <5>5
      <4> QED BY <4>1, <4>2
    <3>6. Adding(g, l, ctx, k)
      <4>1. g = [i \in 0..k |-> g[i]]
        OBVIOUS
      <4> HIDE DEF g
      <4> QED BY <3>5, <4>1 DEF Adding, first
    <3> QED BY <3>6
  <2> QED BY <2>1, <2>2
<1> HIDE DEF S
<1>2. S \in SUBSET Nat
  BY DEF S
<1>3. S = Nat
  BY <1>1, <1>2, Induction
<1> QED BY <1>3 DEF S

\* It is the one of the definition.
LEMMA UnionRuns ==
  ASSUME NEW ctx, MapLen(ctx.x) \in Nat \ {0}
  PROVE  \E f : /\ Adding(f, list, ctx, MapLen(ctx.x) - 1)
                /\ UnionLoop(ctx) = f[MapLen(ctx.x) - 1]
<1> DEFINE n == MapLen(ctx.x) - 1
           f == CHOOSE f : Adding(f, list, ctx, n)
<1>1. n \in Nat
  OBVIOUS
<1>2. Adding(f, list, ctx, n)
  <2> HIDE DEF n
  <2> QED BY <1>1, AddingExists
<1>3. UnionLoop(ctx) = f[n]
  BY DEF UnionLoop, Adding
<1> QED BY <1>2, <1>3

\* A hash to merge with: each of its items has a key.
LEMMA OtherItems ==
  ASSUME NEW x \in Others, x.count > 1
  PROVE  /\ MapLen(x) \in Nat \ {0, 1}
         /\ \A i \in 1..(MapLen(x) - 1) : KeyOf(x, i) \in Keys /\ ValueOf(x, i) \in Seq(Byte)
<1>1. WellFormed(x) /\ Verified(x) /\ Rings(x)
  BY HashAssumption DEF IsHash, Rings, Tight
<1>2. x.count \in Nat
  BY <1>1, RingsItems
<1>3. MapSize(x) \in Nat
  BY <1>1, <1>2, MapSizeItem
<1>4. MapLen(x) = x.count
  BY <1>1, <1>2, <1>3 DEF MapLen, Smaller, Verified
<1>5. ASSUME NEW i \in 1..(x.count - 1)
      PROVE  KeyOf(x, i) \in Keys /\ ValueOf(x, i) \in Seq(Byte)
  <2>1. KeyOf(x, i) \in Keys
    BY <1>1 DEF Verified
  <2> DEFINE start == DataOffset(x, StartOf(x, i), KeyLen(x, i) + 1)
             size  == GetSize(x, i) - KeyLen(x, i) - 1
  <2>2. KeyLen(x, i) \in Nat
    <3> DEFINE zero == 0
    <3>1. i \in Int /\ zero \in Int
      BY <1>2
    <3> HIDE DEF zero
    <3>2. x.blob[DataOffset(x, StartOf(x, i), zero)] \in Byte
      BY <1>1, <3>1, AnyBytes
    <3> DEFINE s == StartOf(x, i)
               d == x.data_size
    <3>3. s \in 0..(d - 1) /\ d \in Nat /\ d > 0
      BY <1>1, <3>1, StartType, HeaderType
    <3> HIDE DEF s, d
    <3>4. s % d = s /\ s + zero = s
      <4>1. s % d = s
        BY <3>3, ModSmall
      <4> QED BY <3>3, <4>1 DEF zero
    <3>5. KeyLen(x, i) \in Byte
      BY <3>2, <3>4 DEF KeyLen, DataOffset, s, d
    <3> QED BY <3>5, ByteNat
  <2>3. GetSize(x, i) \in Nat
    <3>1. i \in 0..(x.count - 1)
      BY <1>2
    <3>2. GetSize(x, i) = Len(Item(x, i)) /\ Item(x, i) \in Seq(Byte)
      BY <1>1, <3>1, RingsItems
    <3> QED BY <3>2
  <2>4. start \in Int
    <3>1. i \in Int
      BY <1>2
    <3>2. StartOf(x, i) \in 0..(x.data_size - 1) /\ x.data_size \in Nat /\ x.data_size > 0
      BY <1>1, <3>1, StartType, HeaderType
    <3> DEFINE y == StartOf(x, i) + (KeyLen(x, i) + 1)
    <3>3. y \in Int
      BY <2>2, <3>2
    <3> HIDE DEF y
    <3>4. y % x.data_size \in 0..(x.data_size - 1)
      BY <3>2, <3>3, ModRange
    <3> QED BY <3>4 DEF DataOffset, y
  <2>5. size \in Int
    BY <2>2, <2>3
  <2> HIDE DEF start, size
  <2>6. ReadBytes(x, start, size) \in Seq(Byte)
    BY <1>1, <2>4, <2>5, AnyRead
  <2> QED BY <2>1, <2>6 DEF ValueOf, start, size
<1> QED BY <1>2, <1>4, <1>5

\* What the loop of hunion() has computed after any item.
Underway(acc) ==
  /\ acc = [list |-> acc.list, j |-> acc.j, status |-> acc.status]
  /\ Proper(acc.list) /\ acc.j \in Nat /\ acc.status \in HashStatus

\* One turn of it.
LEMMA StepProper ==
  ASSUME NEW ctx, NEW acc, Underway(acc), NEW i \in Nat,
         KeyOf(ctx.x, i) \in Keys, ValueOf(ctx.x, i) \in Seq(Byte)
  PROVE  Underway(UnionStep(ctx, acc, i))
<1> DEFINE x   == ctx.x
           key == KeyOf(x, i)
           val == ValueOf(x, i)
           l   == acc.list
           r   == IF Locate(l, key) < l.count THEN Result(l, HASH_EXISTS)
                  ELSE HNew(l, key, val)
<1>1. Proper(l) /\ acc.j \in Nat /\ acc.status \in HashStatus
      /\ acc = [list |-> l, j |-> acc.j, status |-> acc.status]
  BY DEF Underway
<1>2. Proper(HNew(l, key, val).list)
  BY <1>1, NewProper
<1>3. Proper(r.list)
  BY <1>1, <1>2 DEF Result
<1>4. UnionStep(ctx, acc, i) =
        IF acc.status = LIST_FULL \/ i < ctx.j THEN acc
        ELSE IF MapByte(x, i) \in ctx.bits THEN [acc EXCEPT !.j = i + 1]
        ELSE IF r.status = LIST_FULL
        THEN [list |-> r.list, j |-> i, status |-> LIST_FULL]
        ELSE [list |-> r.list, j |-> i + 1, status |-> LIST_OK]
  BY DEF UnionStep
<1> DEFINE m == r.list
<1>5. i + 1 \in Nat /\ LIST_FULL \in HashStatus /\ LIST_OK \in HashStatus
  BY DEF HashStatus, ListStatus
<1>6. Underway([acc EXCEPT !.j = i + 1])
  <2> DEFINE n == i + 1
             a == acc.j
             s == acc.status
  <2>1. n \in Nat /\ acc = [list |-> l, j |-> a, status |-> s] /\ s \in HashStatus
    BY <1>1
  <2> HIDE DEF n, a, s, l
  <2>2. [acc EXCEPT !.j = n] = [list |-> l, j |-> n, status |-> s]
    BY <2>1
  <2>3. Underway([list |-> l, j |-> n, status |-> s])
    BY <1>1, <2>1 DEF Underway
  <2> QED BY <2>2, <2>3 DEF n
<1>7. /\ Underway([list |-> m, j |-> i, status |-> LIST_FULL])
      /\ Underway([list |-> m, j |-> i + 1, status |-> LIST_OK])
  <2>1. Proper(m)
    BY <1>3
  <2> HIDE DEF m
  <2> QED BY <1>5, <2>1 DEF Underway
<1> HIDE DEF r
<1> QED BY <1>4, <1>6, <1>7

\* The loop.
LEMMA UnionProper ==
  ASSUME Proper(list), NEW ctx, ctx.x \in Others, ctx.x.count > 1, ctx.j \in Nat
  PROVE  Underway(UnionLoop(ctx))
<1> DEFINE n == MapLen(ctx.x) - 1
           first == [list |-> list, j |-> ctx.j, status |-> LIST_OK]
<1>1. /\ MapLen(ctx.x) \in Nat \ {0, 1}
      /\ \A i \in 1..n : KeyOf(ctx.x, i) \in Keys /\ ValueOf(ctx.x, i) \in Seq(Byte)
  BY OtherItems
<1>2. PICK f : Adding(f, list, ctx, n) /\ UnionLoop(ctx) = f[n]
  BY <1>1, UnionRuns
<1>3. n \in Nat
  BY <1>1
<1> HIDE DEF n
<1>4. f = [i \in 0..n |-> IF i = 0 THEN first ELSE UnionStep(ctx, f[i - 1], i)]
  BY <1>2 DEF Adding
<1> DEFINE S == {k \in Nat : k <= n => Underway(f[k])}
<1>5. ASSUME NEW k \in Nat, \A m \in 0..(k - 1) : m \in S
      PROVE  k \in S
  <2> SUFFICES ASSUME k <= n PROVE Underway(f[k])
    OBVIOUS
  <2>1. CASE k = 0
    <3>1. f[k] = first
      BY <1>3, <1>4, <2>1
    <3>2. Underway(first)
      BY DEF Underway, HashStatus, ListStatus
    <3> QED BY <3>1, <3>2
  <2>2. CASE k # 0
    <3> DEFINE p == k - 1
    <3>1. p \in 0..(k - 1) /\ p <= n /\ k \in 1..n /\ k \in 0..n
      BY <2>2, <1>3
    <3>2. Underway(f[p])
      BY <1>5, <3>1
    <3>3. f[k] = UnionStep(ctx, f[p], k)
      BY <1>4, <2>2, <3>1
    <3> HIDE DEF p
    <3>4. KeyOf(ctx.x, k) \in Keys /\ ValueOf(ctx.x, k) \in Seq(Byte)
      BY <1>1, <3>1
    <3> QED BY <3>2, <3>3, <3>4, StepProper
  <2> QED BY <2>1, <2>2
<1> HIDE DEF S
<1>6. S \in SUBSET Nat
  BY DEF S
<1>7. S = Nat
  BY <1>5, <1>6, Induction
<1>8. Underway(f[n])
  BY <1>3, <1>7 DEF S
<1> QED BY <1>2, <1>8

-----------------------------------------------------------------------------
(* The theorems. *)

\* The inductive invariant: the offsets of the hash are in order, its items
\* have keys of the map's bytes, and a union that has stopped is one with a
\* proper hash.
IInv ==
  /\ Proper(list)
  /\ ret.status \in HashStatus
  /\ merge = [x |-> merge.x, j |-> merge.j, bits |-> merge.bits]
  /\ merge.j \in Nat
  /\ ~ Ready => merge.x \in Others

\* The invariant says all three properties.
LEMMA IInvImplies ==
  ASSUME IInv
  PROVE  TypeOK /\ HVerify /\ MapNoItem
<1>1. Rings(list) /\ Sound(Items(list)) /\ WellFormed(list)
  BY RingsItems DEF IInv, Proper
<1>2. /\ list.count \in Nat /\ list.count < list.index_size
      /\ list.data_len \in Nat /\ list.data_size \in Nat /\ list.data_len < list.data_size
  BY <1>1, RingsItems
<1>3. TypeOK
  BY <1>1, <1>2 DEF TypeOK, IInv, WellFormed
<1>4. HVerify
  BY <1>1, SoundVerified, VerifyFails DEF HVerify
<1>5. MapNoItem
  <2> SUFFICES ASSUME NEW key \in Keys, list.count > 0
               PROVE  Locate(list, key) # 0
    BY DEF MapNoItem
  <2> DEFINE i == Locate(list, key)
  <2>1. i = list.count \/ i \in 1..(list.count - 1)
    BY <1>1, LocateFound
  <2> HIDE DEF i
  <2>2. i # 0
    BY <1>2, <2>1
  <2> QED BY <2>2 DEF i
<1> QED BY <1>3, <1>4, <1>5

\* It holds of an empty hash.
LEMMA IInvInit ==
  ASSUME Init
  PROVE  IInv
<1>1. PICK size \in Sizes : list = EmptyList(size[1], size[2], Fill)
  BY DEF Init
<1>2. size[1] \in Nat \ {0, 1} /\ size[2] \in Nat \ {0, 1} /\ Fill \in Byte
  BY HashAssumption
<1>3. Rings(list) /\ list.count = 0
  BY <1>1, <1>2, EmptyRings
<1>4. Len(Items(list)) = 0
  BY <1>3, RingsItems
<1>5. Sound(Items(list))
  <2> DEFINE q == Items(list)
  <2>1. Len(q) = 0
    BY <1>4
  <2> HIDE DEF q
  <2>2. Sound(q)
    BY <2>1 DEF Sound
  <2> QED BY <2>2 DEF q
<1>6. ret.status = LIST_OK
  BY DEF Init, Status
<1>7. merge = [x |-> <<>>, j |-> 0, bits |-> {}]
  BY DEF Init, NoMerge
<1>8. /\ merge.j = 0 /\ merge.j \in Nat
      /\ merge = [x |-> merge.x, j |-> merge.j, bits |-> merge.bits]
  BY <1>7
<1> QED BY <1>3, <1>5, <1>6, <1>8 DEF IInv, Proper, Ready, HashStatus, ListStatus

\* A hash that is replied with is a proper one.
LEMMA ReplyKeeps ==
  ASSUME IInv, NEW l, NEW s, Proper(l), s \in HashStatus, Reply(l, s)
  PROVE  IInv'
BY DEF IInv, Reply, Status, Ready

\* hunion()
LEMMA UnionKeeps ==
  ASSUME IInv, NEW x \in Others, HUnion(x)
  PROVE  IInv'
<1> DEFINE ctx == IF Ready THEN [x |-> x, j |-> 1, bits |-> HashBits(list)] ELSE merge
           r   == UnionLoop(ctx)
<1>1. /\ Ready \/ merge.x = x
      /\ IF x.count <= 1 THEN Reply(list, LIST_OK)
         ELSE /\ list' = r.list
              /\ ret' = Status(r.status)
              /\ merge' = IF r.status = LIST_FULL THEN [ctx EXCEPT !.j = r.j]
                          ELSE NoMerge
  BY DEF HUnion
<1>2. ctx.x = x /\ ctx.j \in Nat /\ ctx = [x |-> ctx.x, j |-> ctx.j, bits |-> ctx.bits]
  BY <1>1 DEF IInv
<1>3. CASE x.count <= 1
  BY <1>1, <1>3, ReplyKeeps DEF IInv, HashStatus, ListStatus
<1>4. CASE ~ (x.count <= 1)
  <2>1. x.count > 1
    <3>1. Rings(x)
      BY HashAssumption DEF IsHash, Rings, Tight
    <3>2. x.count \in Nat
      BY <3>1, RingsItems
    <3> QED BY <1>4, <3>2
  <2> HIDE DEF ctx
  <2>2. Underway(r)
    BY <1>2, <2>1, UnionProper DEF IInv
  <2> HIDE DEF r
  <2>3. /\ list' = r.list /\ ret' = Status(r.status)
        /\ merge' = IF r.status = LIST_FULL THEN [ctx EXCEPT !.j = r.j] ELSE NoMerge
    BY <1>1, <1>4
  <2>4. Proper(r.list) /\ r.j \in Nat /\ r.status \in HashStatus
    BY <2>2 DEF Underway
  <2>5. Proper(list') /\ ret'.status \in HashStatus
    BY <2>3, <2>4 DEF Status
  <2>6. /\ merge' = [x |-> merge'.x, j |-> merge'.j, bits |-> merge'.bits]
        /\ merge'.j \in Nat
        /\ merge'.j # 0 => merge'.x \in Others
    <3>1. CASE r.status = LIST_FULL
      <4> DEFINE cb == ctx.bits
                 rj == r.j
      <4>1. ctx = [x |-> x, j |-> ctx.j, bits |-> cb] /\ rj \in Nat
        BY <1>2, <2>4
      <4>2. merge' = [ctx EXCEPT !.j = rj]
        BY <2>3, <3>1
      <4> HIDE DEF cb, rj
      <4>3. merge' = [x |-> x, j |-> rj, bits |-> cb]
        BY <4>1, <4>2
      <4> QED BY <4>1, <4>3
    <3>2. CASE r.status # LIST_FULL
      <4>1. merge' = [x |-> <<>>, j |-> 0, bits |-> {}]
        BY <2>3, <3>2 DEF NoMerge
      <4> QED BY <4>1
    <3> QED BY <3>1, <3>2
  <2> QED BY <2>5, <2>6 DEF IInv, Ready
<1> QED BY <1>3, <1>4

\* Every operation keeps it.
LEMMA IInvNext ==
  ASSUME IInv, [Next]_vars
  PROVE  IInv'
<1>0. Proper(list)
  BY DEF IInv
<1>1. ASSUME NEW key \in Keys, NEW val \in Values,
             HSet(key, val) \/ HSetNx(key, val) \/ HAlloc(key, val) \/ HAppend(key, val)
      PROVE  IInv'
  <2>0. val \in Seq(Byte)
    BY HashAssumption
  <2>1. CASE HSet(key, val)
    <3> DEFINE r == HUpdate(list, Locate(list, key), key, val)
    <3>1. Reply(r.list, r.status)
      BY <2>1 DEF HSet, ReplyResult
    <3>2. Proper(r.list) /\ r.status \in HashStatus
      BY <1>0, <2>0, UpdateProper
    <3> HIDE DEF r
    <3> QED BY <3>1, <3>2, ReplyKeeps
  <2>2. CASE HSetNx(key, val)
    <3> DEFINE r == HNew(list, key, val)
    <3>1. Reply(list, HASH_EXISTS) \/ Reply(r.list, r.status)
      BY <2>2 DEF HSetNx, ReplyResult
    <3>2. Proper(r.list) /\ r.status \in HashStatus
      BY <1>0, <2>0, NewProper
    <3>3. HASH_EXISTS \in HashStatus
      BY DEF HashStatus
    <3> HIDE DEF r
    <3>4. CASE Reply(list, HASH_EXISTS)
      BY <1>0, <3>3, <3>4, ReplyKeeps
    <3>5. CASE Reply(r.list, r.status)
      BY <3>2, <3>5, ReplyKeeps
    <3> QED BY <3>1, <3>4, <3>5
  <2>3. CASE HAlloc(key, val)
    <3> DEFINE r == HAllocate(list, key, val)
    <3>1. Reply(r.list, r.status)
      BY <2>3 DEF HAlloc, ReplyResult
    <3>2. Proper(r.list) /\ r.status \in HashStatus
      BY <1>0, <2>0, AllocateProper
    <3> HIDE DEF r
    <3> QED BY <3>1, <3>2, ReplyKeeps
  <2>4. CASE HAppend(key, val)
    <3> DEFINE r == HAppendValue(list, key, val)
    <3>1. Reply(r.list, r.status)
      BY <2>4 DEF HAppend, ReplyResult
    <3>2. Proper(r.list) /\ r.status \in HashStatus
      BY <1>0, <2>0, AppendValueProper
    <3> HIDE DEF r
    <3> QED BY <3>1, <3>2, ReplyKeeps
  <2> QED BY <1>1, <2>1, <2>2, <2>3, <2>4
<1>2. ASSUME NEW key \in Keys, HGet(key)
      PROVE  IInv'
  <2>1. PICK s \in {LIST_OK, LIST_NOT_FOUND} : \E v : ReplyValue(s, v)
    BY <1>2 DEF HGet
  <2>2. list' = list /\ merge' = merge /\ ret'.status = s
    BY <2>1 DEF ReplyValue
  <2> QED BY <2>2 DEF IInv, Ready, HashStatus, ListStatus
<1>3. ASSUME NEW key \in Keys, HDel(key)
      PROVE  IInv'
  <2> DEFINE i == Locate(list, key)
  <2>1. i = list.count \/ i \in 1..(list.count - 1)
    BY <1>0, LocateFound DEF Proper
  <2>2. list.count \in Nat
    BY <1>0, RingsItems DEF Proper
  <2>3. IF i < list.count THEN Reply(HRemItem(list, i), LIST_OK) ELSE Reply(list, LIST_NOT_FOUND)
    BY <1>3 DEF HDel
  <2>4. LIST_OK \in HashStatus /\ LIST_NOT_FOUND \in HashStatus
    BY DEF HashStatus, ListStatus
  <2> HIDE DEF i
  <2>5. CASE i < list.count
    <3>1. i \in 1..(list.count - 1)
      BY <2>1, <2>2, <2>5
    <3>2. Proper(HRemItem(list, i))
      BY <1>0, <3>1, RemItemProper
    <3> QED BY <2>3, <2>4, <2>5, <3>2, ReplyKeeps
  <2>6. CASE ~ (i < list.count)
    BY <1>0, <2>3, <2>4, <2>6, ReplyKeeps
  <2> QED BY <2>5, <2>6
<1>4. ASSUME HRemAll
      PROVE  IInv'
  <2>1. list.count \in Nat
    BY <1>0, RingsItems DEF Proper
  <2>2. Proper(HRemAllItems(list))
    <3>1. CASE list.count > 1
      <4> DEFINE one == 1
      <4>1. one \in 0..list.count
        BY <2>1, <3>1
      <4> HIDE DEF one
      <4>2. Proper([list EXCEPT !.count = one])
        BY <1>0, <4>1, CutProper
      <4> QED BY <3>1, <4>2 DEF HRemAllItems, one
    <3>2. CASE ~ (list.count > 1)
      BY <1>0, <3>2 DEF HRemAllItems
    <3> QED BY <3>1, <3>2
  <2>3. Reply(HRemAllItems(list), LIST_OK) /\ LIST_OK \in HashStatus
    BY <1>4 DEF HRemAll, HashStatus, ListStatus
  <2> QED BY <2>2, <2>3, ReplyKeeps
<1>5. ASSUME NEW size \in Sizes, Copy(size)
      PROVE  IInv'
  <2> DEFINE a == size[1]
             b == size[2]
             l == CopyList(list, a, b, Fill)
  <2>1. a \in Nat \ {0, 1} /\ b \in Nat \ {0, 1} /\ Fill \in Byte
    BY HashAssumption
  <2>2. list.count < a /\ list.data_len < b /\ Reply(l, LIST_OK)
    BY <1>5 DEF Copy
  <2>3. LIST_OK \in HashStatus
    BY DEF HashStatus, ListStatus
  <2> HIDE DEF a, b
  <2>4. Rings(l) /\ Items(l) = Items(list)
    BY <1>0, <2>1, <2>2, CopyRings DEF Proper
  <2> HIDE DEF l
  <2>5. Proper(l)
    BY <1>0, <2>4 DEF Proper
  <2> QED BY <2>2, <2>3, <2>5, ReplyKeeps
<1>6. ASSUME NEW x \in Others, HUnion(x) \/ HInter(x) \/ HDiff(x)
      PROVE  IInv'
  <2>1. CASE HUnion(x)
    BY <2>1, UnionKeeps
  <2>2. CASE HInter(x) \/ HDiff(x)
    <3>1. PICK b \in BOOLEAN : Reply(HInterItems(list, x, b), LIST_OK)
      BY <2>2 DEF HInter, HDiff
    <3>2. Proper(HInterItems(list, x, b))
      BY <1>0, InterProper
    <3>3. LIST_OK \in HashStatus
      BY DEF HashStatus, ListStatus
    <3> QED BY <3>1, <3>2, <3>3, ReplyKeeps
  <2> QED BY <1>6, <2>1, <2>2
<1>7. CASE UNCHANGED vars
  BY <1>7 DEF vars, IInv, Ready
<1> QED BY <1>1, <1>2, <1>3, <1>4, <1>5, <1>6, <1>7 DEF Next

\* The invariant holds in every state.
LEMMA Invariant ==
  Spec => []IInv
<1>1. Init => IInv
  BY IInvInit
<1>2. IInv /\ [Next]_vars => IInv'
  BY IInvNext
<1> QED BY <1>1, <1>2, PTL DEF Spec

\* hverify() of HashData fails in the two ways of Accounted and no other: after
\* every sequence of operations, of whatever sizes, keys and values, the map has
\* a byte for each item and it is that of the item's key, and lverify() finds
\* nothing but the bytes that hremall() and hinter() left in data_len.
THEOREM HashVerified == Spec => []HVerify
<1>1. IInv => HVerify
  BY IInvImplies
<1> QED BY <1>1, Invariant, PTL

\* No search ever takes the map for an item.
THEOREM MapKeptApart == Spec => []MapNoItem
<1>1. IInv => MapNoItem
  BY IInvImplies
<1> QED BY <1>1, Invariant, PTL

\* The header, the offsets and the bytes stay within the rings.
THEOREM TypeCorrect == Spec => []TypeOK
<1>1. IInv => TypeOK
  BY IInvImplies
<1> QED BY <1>1, Invariant, PTL

=============================================================================
